---- MODULE Spec2Model ----
(***************************************************************************)
(* The sync-granule task of the Cumulus ingest engine: syncGranule and its *)
(* download loop, run by several concurrent invocations against one shared *)
(* staging bucket, together with the ingest adapter (fetch, checksum,      *)
(* duplicate policy) and the lock coordinator they are written against.    *)
(***************************************************************************)
EXTENDS Integers, Sequences, FiniteSets, TLC

(* ------------------------------ bounds --------------------------------- *)

\* granule identifiers a payload can name
NumGranules == 2
\* distinct file contents the provider can serve
NumContents == 2
\* clients of the lock coordinator
NumClients == 2
\* the time to live of a lock entry, in back-off intervals
LockTtl == 2
\* the longest wait of an acquire, in back-off intervals
MaxWait == 2

\* values fn can return
NumValues == 2
\* calls of fn in one call of waitForConditionalValue
MaxCalls == 5
\* the longest list of deletes, and of puts, handed to batchWrite
MaxRequests == 14
\* calls of Rule.create
MaxRules == 2
\* the largest number of retries given to waitForAsyncOperationStatus
MaxRetries == 2
\* the longest list of items handed to Manager.create
MaxItems == 2
\* the most pages a scan of the table comes in
MaxPages == 3

\* the two concurrent invocations of the task (one per workflow execution)
Invocations == {1, 2}
GranuleIds == 1..NumGranules
\* the files of a granule, in the order of its descriptor: the first granule
\* has a data file and a metadata file, the others a data file only
Files(g) == IF g = 1 THEN <<"hdf", "met">> ELSE <<"hdf">>
Contents == 1..NumContents

(* ------------------------------ inputs --------------------------------- *)

Null == "null"
Modes == {"error", "skip", "replace", "version"}
SupportedProtocols == {"ftp", "sftp", "http", "https", "s3"}
ProtocolTags == SupportedProtocols \cup {"gopher"}

\* the provider the deployment ingests from (event.meta.provider)
ProviderId == "provider"
Providers == [id : {ProviderId}, protocol : ProtocolTags]
NoProvider == [id |-> Null, protocol |-> Null]

\* event.meta.collection: absent, or a collection with or without a
\* duplicateHandling
NoCollection == [present |-> FALSE, duplicateHandling |-> Null]
Collections == [present : {TRUE}, duplicateHandling : Modes \cup {Null}]

\* payload.granules: lists of distinct granule ids, the empty list included
GranuleLists ==
    {<<>>} \cup {<<g>> : g \in GranuleIds}
           \cup {<<p[1], p[2]>> : p \in {q \in GranuleIds \X GranuleIds : q[1] # q[2]}}

\* event.meta.stack, and the names of the deployment's collections
Stack == "stack"
CollectionNames == {"MOD09GQ", "MOD14A1"}

\* event.meta.collection of an event for the collection called name, under
\* the configuration coll the events of a run share
EventCollection(coll, name) ==
    [present |-> coll.present,
     name |-> IF coll.present THEN name ELSE Null,
     duplicateHandling |-> coll.duplicateHandling]

\* the events a workflow execution can hand to the task
Events(coll) ==
    [provider : Providers \cup {NoProvider},
     collection : {EventCollection(coll, n) : n \in CollectionNames},
     stack : {Stack},
     granules : GranuleLists]
NoEvent ==
    [provider |-> NoProvider,
     collection |-> EventCollection(NoCollection, Null),
     stack |-> Null,
     granules |-> <<>>]

(* ------------------------------ errors --------------------------------- *)

NoError == "none"
\* what a failed transfer rejects with: an error that mentions ECONNREFUSED,
\* one whose details.status is 'timeout', and the adapter's other raw errors
TransportErrors == {"ECONNREFUSED", "timeout", "ENOTFOUND"}
\* the kinds of the engine's taxonomy
NormalizedErrors ==
    {"RemoteResourceError", "ConnectionTimeout", "NotFound", "TransientIOError"}

(* --------------------------- staging area ------------------------------ *)

\* destination keys: one per (granule, file name), so the same logical file
\* always targets the same key
Keys == UNION {{<<g, Files(g)[n]>> : n \in 1..Len(Files(g))} : g \in GranuleIds}
NoObject == 0

VARIABLES
    collection, \* the collection configuration the events carry
    event,      \* the event handed to each invocation, until syncGranule reads it
    input,      \* input.granules of each invocation in download
    pc,         \* where each invocation stands
    lockKey,    \* (provider.id, granules[0].granuleId), the key download locks
    adapter,    \* the ingest object syncGranule constructed
    todo,       \* granules the download loop has not started yet
    cur,        \* the granule ingest.ingest is working on
    done,       \* updatedGranules
    err,        \* the error on its way to the caller
    outcome,    \* how the promise syncGranule returned has settled
    endCalls,   \* calls of ingest.end()
    store,      \* staged object at each destination key
    versions    \* contents staged under a disambiguated name, per key

engineVars == <<collection, event, input, pc, lockKey, adapter, todo, cur, done,
                err, outcome, endCalls, store, versions>>

\* the lock coordinator
VARIABLES
    table,      \* the lock table: the entry stored under each key
    lpc,        \* where each client of the coordinator stands
    lkey,       \* the key each client asked for
    waited      \* how long each client has waited for its key

lockVars == <<table, lpc, lkey, waited>>

\* waitForConditionalValue
VARIABLES
    wpc,        \* where the call stands
    options,    \* the arguments of the call
    now,        \* Date.now()
    timeoutAt,  \* timeoutAt
    value,      \* value
    calls,      \* the calls of fn so far: the value and what condition made of it
    settled     \* how the promise of the call has settled

waitVars == <<wpc, options, now, timeoutAt, value, calls, settled>>

\* waitForCompletedExecution
VARIABLES
    epc,             \* where the call stands
    timeout,         \* timeout, in seconds
    iteration,       \* iteration
    clock,           \* Date.now(), in milliseconds since the call
    stopTime,        \* stopTime
    executionStatus, \* executionStatus
    described,       \* what the last call of describeExecution came back with
    got,             \* how the last call of getExecutionStatus ended
    completion       \* how the promise of the call has settled

execVars == <<epc, timeout, iteration, clock, stopTime, executionStatus,
              described, got, completion>>

\* Manager.batchWrite
VARIABLES
    mpc,        \* where the call stands
    deletes,    \* deletes
    puts,       \* puts
    batches,    \* the params handed to dynamodbDocClient.batchWrite so far
    written,    \* how the promise of the call has settled
    items,      \* items as given to create, and the caller's objects after it
    putItems,   \* the Items dynamodbDocClient.put has written, in order
    saved,      \* how the promise of create has settled
    pages,      \* the pages the table's records come in when scanned
    scanned     \* what scan returned

managerVars == <<mpc, deletes, puts, batches, written, items, putItems, saved,
                 pages, scanned>>

\* the Rule model
VARIABLES
    rules,      \* the rules table: the record stored under each name
    schedules,  \* the CloudWatch event put under each rule name
    mappings,   \* the event source mappings of the kinesis consumer
    invoked,    \* the rules whose workflow was invoked
    creates,    \* calls of Rule.create so far
    created,    \* the item given to the last call of create, and how it settled
    removed,    \* the item given to the last call of delete that resolved
    refused     \* a call of create, update or delete has rejected

ruleVars == <<rules, schedules, mappings, invoked, creates, created, removed, refused>>

\* waitForAsyncOperationStatus
VARIABLES
    apc,        \* where the call stands
    params,     \* the status and the retries the call was made with
    retries,    \* retries, of the call of the recursion that is running
    reads,      \* what each getItem so far came back with
    elapsed,    \* the time slept so far, in milliseconds
    operation   \* how the promise of the call has settled

asyncVars == <<apc, params, retries, reads, elapsed, operation>>

\* the Lambda handlers of the sync-granule task and of its cleanup task
VARIABLES
    hpc,        \* where the invocation of the sync-granule handler stands
    hevent,     \* the event the sync-granule handler was given
    startTime,  \* startTime
    dateNow,    \* Date.now()
    synced,     \* how the call of syncGranule ended, or will end
    callbacks,  \* the calls of the sync-granule handler's callback
    cpc,        \* where the invocation of the cleanup handler stands
    cleaned,    \* the event the cleanup handler was given
    deletion,   \* where the deletion cleanFiles started stands
    cleanups    \* the calls of the cleanup handler's callback

taskVars == <<hpc, hevent, startTime, dateNow, synced, callbacks,
              cpc, cleaned, deletion, cleanups>>

vars == <<engineVars, lockVars, waitVars, execVars,
          managerVars, ruleVars, asyncVars, taskVars>>

\* what the engine, the lock coordinator and waitForConditionalValue each
\* leave alone
notEngine == <<lockVars, waitVars, execVars,
               managerVars, ruleVars, asyncVars, taskVars>>
notLock == <<engineVars, waitVars, execVars,
             managerVars, ruleVars, asyncVars, taskVars>>
notWait == <<engineVars, lockVars, execVars,
             managerVars, ruleVars, asyncVars, taskVars>>
notExec == <<engineVars, lockVars, waitVars,
             managerVars, ruleVars, asyncVars, taskVars>>
notManager == <<engineVars, lockVars, waitVars,
                execVars, ruleVars, asyncVars, taskVars>>
notRule == <<engineVars, lockVars, waitVars,
             execVars, managerVars, asyncVars, taskVars>>
notAsync == <<engineVars, lockVars, waitVars,
              execVars, managerVars, ruleVars, taskVars>>
notTask == <<engineVars, lockVars, waitVars,
             execVars, managerVars, ruleVars, asyncVars>>

Clients == 1..NumClients
LockKeys == {<<ProviderId, g>> : g \in GranuleIds}
NoEntry == [owner |-> 0, ttl |-> 0]

NoKey == <<Null, 0>>
NoDir == <<Null, Null>>
NoAdapter ==
    [made |-> FALSE, hasEnd |-> FALSE, fileStagingDir |-> NoDir,
     duplicateHandling |-> Null]
NoIncoming == [content |-> 0, declared |-> FALSE]
NoCur == [g |-> 0, f |-> 0, incoming |-> NoIncoming, files |-> <<>>]
Pending == [kind |-> "pending", error |-> NoError, granules |-> <<>>]

LockInit ==
    /\ table = [k \in LockKeys |-> NoEntry]
    /\ lpc = [c \in Clients |-> "idle"]
    /\ lkey = [c \in Clients |-> NoKey]
    /\ waited = [c \in Clients |-> 0]

EngineInit ==
    /\ event = [i \in Invocations |-> NoEvent]
    /\ input = [i \in Invocations |-> <<>>]
    /\ pc = [i \in Invocations |-> "idle"]
    /\ lockKey = [i \in Invocations |-> NoKey]
    /\ adapter = [i \in Invocations |-> NoAdapter]
    /\ todo = [i \in Invocations |-> <<>>]
    /\ cur = [i \in Invocations |-> NoCur]
    /\ done = [i \in Invocations |-> <<>>]
    /\ err = [i \in Invocations |-> NoError]
    /\ outcome = [i \in Invocations |-> Pending]
    /\ endCalls = [i \in Invocations |-> 0]
    /\ store = [k \in Keys |-> NoObject]
    /\ versions = [k \in Keys |-> {}]

\* an option of the call: left out, or given as an integer or as something
\* else
Omitted == [given |-> FALSE, isInteger |-> FALSE, n |-> 0]
Given(n) == [given |-> TRUE, isInteger |-> TRUE, n |-> n]
NotAnInteger == [given |-> TRUE, isInteger |-> FALSE, n |-> 0]
NoOptions ==
    [fn |-> FALSE, condition |-> FALSE, interval |-> Omitted, timeout |-> Omitted]
NoValue == 0
Unsettled == [kind |-> "pending", value |-> NoValue, error |-> NoError]

WaitInit ==
    /\ wpc = "idle"
    /\ options = NoOptions
    /\ now = 0
    /\ timeoutAt = 0
    /\ value = NoValue
    /\ calls = <<>>
    /\ settled = Unsettled

\* executionStatus before the first call of getExecutionStatus
NoStatus == "undefined"
\* getExecutionStatus has returned a status, or thrown an error with a code
Returned(status) == [kind |-> "returned", status |-> status, code |-> NoError]
Thrown(code) == [kind |-> "thrown", status |-> NoStatus, code |-> code]
NotCalled == [kind |-> "pending", status |-> NoStatus, code |-> NoError]
NotDescribed == [exists |-> FALSE, status |-> NoStatus, code |-> NoError]

ExecInit ==
    /\ epc = "idle"
    /\ timeout = 0
    /\ iteration = 0
    /\ clock = 0
    /\ stopTime = 0
    /\ executionStatus = NoStatus
    /\ described = NotDescribed
    /\ got = NotCalled
    /\ completion = NotCalled

\* an argument of batchWrite: left out, or a list
Undefined == [defined |-> FALSE, list |-> <<>>]
List(l) == [defined |-> TRUE, list |-> l]
NotWritten == [kind |-> "pending", error |-> NoError]

NoItems == [given |-> Undefined, schema |-> FALSE, after |-> <<>>]
NotSaved == [kind |-> "pending", error |-> NoError, isArray |-> FALSE, value |-> <<>>]
NotScanned == [Items |-> <<>>, Count |-> 0]

ManagerInit ==
    /\ mpc = "idle"
    /\ deletes = Undefined
    /\ puts = Undefined
    /\ batches = <<>>
    /\ written = NotWritten
    /\ items = NoItems
    /\ putItems = <<>>
    /\ saved = NotSaved
    /\ pages = <<>>
    /\ scanned = NotScanned

RuleNames == {"rule_1", "rule_2"}
\* a state that was not given
NoState == "undefined"
NoArn == 0
NoRule ==
    [name |-> Null, state |-> NoState,
     rule |-> [type |-> Null, value |-> Null, arn |-> NoArn]]
NoSchedule == [value |-> Null, state |-> NoState]
NotCreated ==
    [kind |-> "pending", error |-> NoError, given |-> NoRule, item |-> NoRule,
     lookup |-> FALSE, workflow |-> FALSE]

RuleInit ==
    /\ rules = [n \in RuleNames |-> NoRule]
    /\ schedules = [n \in RuleNames |-> NoSchedule]
    /\ mappings = {}
    /\ invoked = {}
    /\ creates = 0
    /\ created = NotCreated
    /\ removed = NoRule
    /\ refused = FALSE

NoParams == [status |-> NoStatus, retries |-> 0]
\* an item of the AsyncOperations table with its status, or a failed getItem
OperationItem(status) == [read |-> TRUE, status |-> status]
NoItem == [read |-> FALSE, status |-> NoStatus]
NoOperation == [kind |-> "pending", item |-> NoItem]

\* event.meta of a message: there or not, with buckets.private, a provider
\* and collection.process there or not
NoMeta == [defined |-> FALSE, private |-> FALSE, provider |-> FALSE, process |-> FALSE]
Metas ==
    {NoMeta} \cup [defined : {TRUE}, private : BOOLEAN, provider : BOOLEAN,
                   process : BOOLEAN]
\* a Cumulus message: config, meta and payload
Messages ==
    [config : {"config"}, meta : Metas,
     payload : [granules : {"found"}, pdr : {"pdr"}]]
NoMessage ==
    [config |-> Null, meta |-> NoMeta, payload |-> [granules |-> Null, pdr |-> Null]]
NotSynced == [kind |-> "pending", error |-> NoError, granules |-> Null, process |-> FALSE]
\* the events of the cleanup task: meta there or not, the duration in it,
\* and payload.granules[0].files[0] there or not
CleanupEvents == [meta : BOOLEAN, sync_granule_duration : {0, 120000, 120001},
                  file : BOOLEAN]
NoCleanupEvent == [meta |-> FALSE, sync_granule_duration |-> 0, file |-> FALSE]

TaskInit ==
    /\ hpc = "idle"
    /\ hevent = NoMessage
    /\ startTime = 0
    /\ dateNow = 0
    /\ synced = NotSynced
    /\ callbacks = <<>>
    /\ cpc = "idle"
    /\ cleaned = NoCleanupEvent
    /\ deletion = "none"
    /\ cleanups = <<>>

AsyncInit ==
    /\ apc = "idle"
    /\ params = NoParams
    /\ retries = 0
    /\ reads = <<>>
    /\ elapsed = 0
    /\ operation = NoOperation

Init ==
    /\ collection \in Collections \cup {NoCollection}
    /\ EngineInit
    /\ LockInit
    /\ WaitInit
    /\ ExecInit
    /\ ManagerInit
    /\ RuleInit
    /\ AsyncInit
    /\ TaskInit

(* ------------------- checksum verifier and policy ---------------------- *)

\* the digest of a file's bytes
Checksum(content) == <<"digest", content>>
NoChecksum == <<"digest", 0>>

\* faulty: the digests are never compared
SameChecksumNever(existing, incoming) == FALSE

\* the existing object's digest can be compared with the incoming file's
\* only when the provider declared a checksum for the incoming file
SameChecksum(existing, incoming) ==
    /\ incoming.declared
    /\ Checksum(existing) = Checksum(incoming.content)

\* the mode the adapter evaluates with: error when none was handed to it
ResolveMode(duplicateHandling) ==
    IF duplicateHandling = Null THEN "error" ELSE duplicateHandling

\* evaluate(existingFile, incoming, mode) -> Decision: with no existing file
\* the incoming one is staged; skip keeps whatever exists; a file proved
\* identical to the existing one is no conflict under any other mode; a file
\* that differs, or cannot be compared, is handled as the mode says
Evaluate(existing, incoming, mode) ==
    IF existing = NoObject THEN "Proceed"
    ELSE IF mode = "skip" THEN "SkipKeepExisting"
    ELSE IF SameChecksum(existing, incoming) THEN "Proceed"
    ELSE CASE mode = "replace" -> "Replace"
           [] mode = "version" -> "Version"
           [] OTHER -> "Reject"

\* the object at the destination key once the decision has been carried out
Staged(existing, incoming, decision) ==
    IF decision \in {"Proceed", "Replace"} THEN incoming.content ELSE existing

\* the contents held under disambiguated names once the decision has been
\* carried out: a versioned file is named after its digest
Versioned(held, incoming, decision) ==
    IF decision = "Version" THEN held \cup {incoming.content} ELSE held

\* where the decision stages the incoming file: the destination key, or a
\* name disambiguated by the digest of the file
StagedKey(k, incoming, decision) ==
    IF decision = "Version" THEN <<k[1], k[2], Checksum(incoming.content)>>
    ELSE <<k[1], k[2], NoChecksum>>

\* the record of a finalized file: where it is staged and whether a
\* pre-existing object was met
FileRecord(k, existing, incoming, decision) ==
    [name |-> k,
     staged |-> StagedKey(k, incoming, decision),
     duplicate_found |-> existing # NoObject]

(* ------------------------------ download ------------------------------- *)

\* const proceed = true
Proceed == TRUE

\* ingest.ingest(g, bucket) is called for granule g
BeginIngest(g) == [g |-> g, f |-> 1, incoming |-> NoIncoming, files |-> <<>>]

\* faulty: download pushes the granule it was given, not what ingest returned
PushedInput(c) ==
    [granuleId |-> c.g,
     files |-> [n \in 1..Len(c.files) |->
                  [c.files[n] EXCEPT !.duplicate_found = FALSE]]]

\* what download pushes onto updatedGranules for the granule ingest returned
Pushed(c) == [granuleId |-> c.g, files |-> c.files]

\* faulty: the loop takes the granules from the end of the list
LoopFromLast(i, granules) ==
    IF granules # <<>>
    THEN /\ cur' = [cur EXCEPT ![i] = BeginIngest(granules[Len(granules)])]
         /\ todo' = [todo EXCEPT ![i] = SubSeq(granules, 1, Len(granules) - 1)]
         /\ pc' = [pc EXCEPT ![i] = "fetch"]
    ELSE /\ cur' = [cur EXCEPT ![i] = NoCur]
         /\ todo' = [todo EXCEPT ![i] = <<>>]
         /\ pc' = [pc EXCEPT ![i] = "then"]

\* the for loop over what is left of the list: the next call of ingest.ingest,
\* or the return of updatedGranules when nothing is left
Loop(i, granules) ==
    IF granules # <<>>
    THEN /\ cur' = [cur EXCEPT ![i] = BeginIngest(Head(granules))]
         /\ todo' = [todo EXCEPT ![i] = Tail(granules)]
         /\ pc' = [pc EXCEPT ![i] = "fetch"]
    ELSE /\ cur' = [cur EXCEPT ![i] = NoCur]
         /\ todo' = [todo EXCEPT ![i] = <<>>]
         /\ pc' = [pc EXCEPT ![i] = "then"]

\* download throws e: the promise it returned is rejected with e
Throw(i, e) ==
    /\ err' = [err EXCEPT ![i] = e]
    /\ pc' = [pc EXCEPT ![i] = "catch"]
    /\ UNCHANGED cur

\* download up to its first await: the lock check and the head of the loop;
\* with no granule the loop body never runs and granules[0].granuleId throws
Download(i, granules) ==
    IF ~Proceed
    THEN Throw(i, "ResourcesLockedError") /\ UNCHANGED <<todo, done>>
    ELSE IF granules = <<>>
    THEN Throw(i, "TypeError") /\ UNCHANGED <<todo, done>>
    ELSE Loop(i, granules) /\ UNCHANGED <<err, done>>

\* ingest.ingest resolved with r: push it, then go round the loop
IngestResolved(i, r) ==
    /\ done' = [done EXCEPT ![i] = Append(@, Pushed(r))]
    /\ Loop(i, todo[i])
    /\ UNCHANGED err

\* faulty: the catch of download logs e and goes on with the loop
IngestRejectedSwallowed(i, e) ==
    /\ Loop(i, todo[i])
    /\ UNCHANGED <<err, done>>

\* faulty: the catch of download calls ingest.ingest for the granule again
IngestRejectedRetried(i, e) ==
    /\ cur' = [cur EXCEPT ![i] = BeginIngest(cur[i].g)]
    /\ pc' = [pc EXCEPT ![i] = "fetch"]
    /\ UNCHANGED <<todo, done, err>>

\* faulty: the catch of download returns what was ingested so far
IngestRejectedPartial(i, e) ==
    /\ pc' = [pc EXCEPT ![i] = "then"]
    /\ UNCHANGED <<cur, todo, done, err>>

\* ingest.ingest rejected with e: download logs e and throws it again
IngestRejected(i, e) ==
    /\ Throw(i, e)
    /\ UNCHANGED <<todo, done>>

(* ----------------------------- syncGranule ----------------------------- *)

\* faulty: the check of the provider is missing
ProviderMissingNever(prov) == FALSE

\* if (!provider)
ProviderMissing(prov) == prov = NoProvider

\* granule.selector('ingest', protocol): does the tag name an adapter
Selector(protocol) == protocol \in SupportedProtocols

\* faulty: the collection's duplicateHandling is never read
DuplicateHandlingDropped(coll) == Null

\* the duplicateHandling syncGranule hands to the adapter
DuplicateHandling(coll) ==
    IF coll.present /\ coll.duplicateHandling # Null
    THEN coll.duplicateHandling ELSE Null

\* path.join('file-staging', stack)
FileStagingDir(stack, coll) == <<"file-staging", stack>>

\* new IngestClass(..., fileStagingDir, forceDownload, duplicateHandling):
\* every adapter has a teardown
IngestClass(fileStagingDir, duplicateHandling) ==
    [made |-> TRUE, hasEnd |-> TRUE, fileStagingDir |-> fileStagingDir,
     duplicateHandling |-> duplicateHandling]

\* the error the catch handler of syncGranule throws for e
ErrorToThrow(e) ==
    IF e = "ECONNREFUSED" THEN "RemoteResourceError"
    ELSE IF e = "timeout" THEN "ConnectionTimeout"
    ELSE e

\* faulty: the teardown is called again where it was called already
EndCallsTwice(a, n) == IF a.hasEnd THEN n + 2 ELSE n

\* if (ingest.end) ingest.end()
EndCalls(a, n) == IF a.hasEnd THEN n + 1 ELSE n

\* faulty: the key is worked out before the adapter is selected
LockKeyEarly(prov, granules) ==
    IF prov = NoProvider \/ granules = <<>>
    THEN NoKey ELSE <<prov.id, Head(granules)>>

\* the key of the lock: provider.id and granules[0].granuleId
LockKey(prov, granules) ==
    IF prov = NoProvider \/ ~Selector(prov.protocol) \/ granules = <<>>
    THEN NoKey ELSE <<prov.id, Head(granules)>>

\* a workflow execution invokes the task with an event; invocations are
\* numbered in the order they arrive
Arrive(i) ==
    /\ pc[i] = "idle"
    /\ \A j \in Invocations : j < i => pc[j] # "idle"
    /\ \E e \in Events(collection) : event' = [event EXCEPT ![i] = e]
    /\ pc' = [pc EXCEPT ![i] = "called"]
    /\ UNCHANGED <<collection, input, lockKey, adapter, todo, cur, done, err,
                   outcome, endCalls, store, versions>>
    /\ UNCHANGED notEngine

\* syncGranule(event), and download up to its first await
SyncGranule(i) ==
    /\ pc[i] = "called"
    /\ LET prov == event[i].provider
           granules == event[i].granules
       IN
        /\ lockKey' = [lockKey EXCEPT ![i] = LockKey(prov, granules)]
        /\ IF ProviderMissing(prov)
           THEN /\ outcome' = [outcome EXCEPT ![i] =
                      [kind |-> "rejected", error |-> "ProviderNotFound",
                       granules |-> <<>>]]
                /\ pc' = [pc EXCEPT ![i] = "settled"]
                /\ UNCHANGED <<input, adapter, todo, cur, done, err>>
           ELSE IF ~Selector(prov.protocol)
           THEN /\ outcome' = [outcome EXCEPT ![i] =
                      [kind |-> "thrown", error |-> "UnsupportedProtocol",
                       granules |-> <<>>]]
                /\ pc' = [pc EXCEPT ![i] = "settled"]
                /\ UNCHANGED <<input, adapter, todo, cur, done, err>>
           ELSE /\ adapter' = [adapter EXCEPT ![i] =
                      IngestClass(FileStagingDir(event[i].stack,
                                                 event[i].collection),
                                  DuplicateHandling(event[i].collection))]
                /\ input' = [input EXCEPT ![i] = granules]
                /\ Download(i, granules)
                /\ UNCHANGED outcome
    /\ event' = [event EXCEPT ![i] = NoEvent]
    /\ UNCHANGED <<collection, endCalls, store, versions>>
    /\ UNCHANGED notEngine

(* --------------------------- ingest adapter ---------------------------- *)

\* the adapter fetches the next file of the granule, or the transfer fails
\* and ingest.ingest rejects
FetchFile(i) ==
    /\ pc[i] = "fetch"
    /\ \/ \E c \in Contents, d \in BOOLEAN :
            /\ cur' = [cur EXCEPT ![i].incoming = [content |-> c, declared |-> d]]
            /\ pc' = [pc EXCEPT ![i] = "stage"]
            /\ UNCHANGED <<todo, done, err>>
       \/ \E e \in TransportErrors : IngestRejected(i, e)
    /\ UNCHANGED <<collection, event, input, lockKey, adapter, outcome,
                   endCalls, store, versions>>
    /\ UNCHANGED notEngine

\* the adapter evaluates the duplicate policy for the fetched file and
\* carries the decision out; after the last file ingest.ingest resolves
StageFile(i) ==
    /\ pc[i] = "stage"
    /\ LET k == <<cur[i].g, Files(cur[i].g)[cur[i].f]>>
           existing == store[k]
           incoming == cur[i].incoming
           decision == Evaluate(existing, incoming,
                                ResolveMode(adapter[i].duplicateHandling))
           files == Append(cur[i].files,
                           FileRecord(k, existing, incoming, decision))
       IN IF decision = "Reject"
          THEN /\ IngestRejected(i, "DuplicateFile")
               /\ UNCHANGED <<store, versions>>
          ELSE /\ store' = [store EXCEPT ![k] = Staged(existing, incoming, decision)]
               /\ versions' = [versions EXCEPT
                                 ![k] = Versioned(versions[k], incoming, decision)]
               /\ IF cur[i].f < Len(Files(cur[i].g))
                  THEN /\ cur' = [cur EXCEPT ![i].files = files, ![i].f = @ + 1]
                       /\ pc' = [pc EXCEPT ![i] = "fetch"]
                       /\ UNCHANGED <<todo, done, err>>
                  ELSE IngestResolved(i, [cur[i] EXCEPT !.files = files])
    /\ UNCHANGED <<collection, event, input, lockKey, adapter, outcome,
                   endCalls>>
    /\ UNCHANGED notEngine

(* ------------------------ syncGranule's handlers ----------------------- *)

\* the locals of download and of the ingest it was in (updatedGranules, the
\* error caught, the file in hand) are gone once the promise has settled

\* download resolved with granules
ThenHandler(i) ==
    /\ pc[i] = "then"
    /\ endCalls' = [endCalls EXCEPT ![i] = EndCalls(adapter[i], @)]
    /\ outcome' = [outcome EXCEPT ![i] =
           [kind |-> "resolved", error |-> NoError, granules |-> done[i]]]
    /\ pc' = [pc EXCEPT ![i] = "settled"]
    /\ done' = [done EXCEPT ![i] = <<>>]
    /\ input' = [input EXCEPT ![i] = <<>>]
    /\ UNCHANGED <<collection, event, lockKey, adapter, todo, cur, err, store,
                   versions>>
    /\ UNCHANGED notEngine

\* faulty: the catch handler forgets the teardown
CatchHandlerNoEnd(i) ==
    /\ pc[i] = "catch"
    /\ outcome' = [outcome EXCEPT ![i] =
           [kind |-> "rejected", error |-> ErrorToThrow(err[i]),
            granules |-> <<>>]]
    /\ pc' = [pc EXCEPT ![i] = "settled"]
    /\ todo' = [todo EXCEPT ![i] = <<>>]
    /\ done' = [done EXCEPT ![i] = <<>>]
    /\ err' = [err EXCEPT ![i] = NoError]
    /\ cur' = [cur EXCEPT ![i] = NoCur]
    /\ input' = [input EXCEPT ![i] = <<>>]
    /\ UNCHANGED <<collection, event, lockKey, adapter, endCalls, store,
                   versions>>
    /\ UNCHANGED notEngine

\* download rejected with e
CatchHandler(i) ==
    /\ pc[i] = "catch"
    /\ endCalls' = [endCalls EXCEPT ![i] = EndCalls(adapter[i], @)]
    /\ outcome' = [outcome EXCEPT ![i] =
           [kind |-> "rejected", error |-> ErrorToThrow(err[i]),
            granules |-> <<>>]]
    /\ pc' = [pc EXCEPT ![i] = "settled"]
    /\ todo' = [todo EXCEPT ![i] = <<>>]
    /\ done' = [done EXCEPT ![i] = <<>>]
    /\ err' = [err EXCEPT ![i] = NoError]
    /\ cur' = [cur EXCEPT ![i] = NoCur]
    /\ input' = [input EXCEPT ![i] = <<>>]
    /\ UNCHANGED <<collection, event, lockKey, adapter, store, versions>>
    /\ UNCHANGED notEngine

Next ==
    \E i \in Invocations :
        \/ Arrive(i)
        \/ SyncGranule(i)
        \/ FetchFile(i)
        \/ StageFile(i)
        \/ ThenHandler(i)
        \/ CatchHandler(i)

Spec == Init /\ [][Next]_vars

(* -------------------------- lock coordinator --------------------------- *)

\* an entry that never expires
UnexpiredForEver(entry) == entry.owner # 0

\* the entry under a key stands in the way of an insert
Unexpired(entry) == entry.owner # 0 /\ entry.ttl > 0

\* client c holds key k: its acquire succeeded and it has not finished
Holds(c, k) == lpc[c] = "holding" /\ lkey[c] = k

\* the conditional insert of an entry for client c under key k
Insert(c, k) ==
    /\ ~Unexpired(table[k])
    /\ table' = [table EXCEPT ![k] = [owner |-> c, ttl |-> LockTtl]]
    /\ lpc' = [lpc EXCEPT ![c] = "holding"]
    /\ lkey' = [lkey EXCEPT ![c] = k]
    /\ waited' = [waited EXCEPT ![c] = 0]

\* acquire(key, maxWait): the insert succeeds, or the caller starts to wait
Acquire(c) ==
    /\ lpc[c] = "idle"
    /\ \E k \in LockKeys :
          \/ Insert(c, k)
          \/ /\ Unexpired(table[k])
             /\ lpc' = [lpc EXCEPT ![c] = "waiting"]
             /\ lkey' = [lkey EXCEPT ![c] = k]
             /\ waited' = [waited EXCEPT ![c] = 0]
             /\ UNCHANGED table
    /\ UNCHANGED notLock

\* a waiting caller tries again after a back-off
Retry(c) ==
    /\ lpc[c] = "waiting"
    /\ waited[c] < MaxWait
    /\ Insert(c, lkey[c])
    /\ UNCHANGED notLock

\* the wait has elapsed: the acquire fails with ResourcesLockedError
GiveUp(c) ==
    /\ lpc[c] = "waiting"
    /\ waited[c] >= MaxWait
    /\ lpc' = [lpc EXCEPT ![c] = "locked"]
    /\ UNCHANGED <<table, lkey, waited>>
    /\ UNCHANGED notLock

\* release(token): the holder deletes its own entry
Release(c) ==
    /\ lpc[c] = "holding"
    /\ table' = [table EXCEPT
                   ![lkey[c]] = IF @.owner = c THEN NoEntry ELSE @]
    /\ lpc' = [lpc EXCEPT ![c] = "idle"]
    /\ lkey' = [lkey EXCEPT ![c] = NoKey]
    /\ UNCHANGED waited
    /\ UNCHANGED notLock

\* the holder stops without releasing
Crash(c) ==
    /\ lpc[c] = "holding"
    /\ lpc' = [lpc EXCEPT ![c] = "crashed"]
    /\ UNCHANGED <<table, lkey, waited>>
    /\ UNCHANGED notLock

\* a later invocation takes the place of one that failed or crashed, once no
\* entry names the old one
Restart(c) ==
    /\ lpc[c] \in {"locked", "crashed"}
    /\ \A k \in LockKeys : table[k].owner # c
    /\ lpc' = [lpc EXCEPT ![c] = "idle"]
    /\ lkey' = [lkey EXCEPT ![c] = NoKey]
    /\ waited' = [waited EXCEPT ![c] = 0]
    /\ UNCHANGED table
    /\ UNCHANGED notLock

\* one back-off interval passes: entries age and waiters have waited longer
Tick ==
    /\ \/ \E k \in LockKeys : Unexpired(table[k])
       \/ \E c \in Clients : lpc[c] = "waiting" /\ waited[c] < MaxWait
    /\ table' = [k \in LockKeys |->
                   IF table[k].ttl > 0 THEN [table[k] EXCEPT !.ttl = @ - 1]
                   ELSE table[k]]
    /\ waited' = [c \in Clients |->
                    IF lpc[c] = "waiting" /\ waited[c] < MaxWait
                    THEN waited[c] + 1 ELSE waited[c]]
    /\ UNCHANGED <<lpc, lkey>>
    /\ UNCHANGED notLock

LockNext ==
    \/ Tick
    \/ \E c \in Clients :
          \/ Acquire(c)
          \/ Retry(c)
          \/ GiveUp(c)
          \/ Release(c)
          \/ Crash(c)
          \/ Restart(c)

\* the engine at rest
LockSpecInit ==
    /\ collection = NoCollection
    /\ EngineInit
    /\ LockInit
    /\ WaitInit
    /\ ExecInit
    /\ ManagerInit
    /\ RuleInit
    /\ AsyncInit
    /\ TaskInit

\* time passes, live clients go on, crashed ones are replaced, and a key that
\* can be had again and again is had
LockFairness ==
    /\ WF_vars(Tick)
    /\ \A c \in Clients : WF_vars(GiveUp(c) \/ Release(c) \/ Crash(c) \/ Restart(c))
    /\ \A k \in LockKeys : SF_vars(\E c \in Clients : Insert(c, k) /\ UNCHANGED notLock)

LockSpec == LockSpecInit /\ [][LockNext]_vars /\ LockFairness

(* ---------------------- waitForConditionalValue ----------------------- *)

DefaultInterval == 1000
DefaultTimeout == 5000

\* the options the calls are made with
IntervalOptions == {Omitted, NotAnInteger, Given(0), Given(100), Given(2000)}
TimeoutOptions == {Omitted, NotAnInteger, Given(0), Given(500), Given(3000)}
Arguments ==
    [fn : BOOLEAN, condition : BOOLEAN,
     interval : IntervalOptions, timeout : TimeoutOptions]

\* how long a call of fn or of condition takes, in milliseconds
Latencies == {0, 50}

\* what fn and condition come back with: a value or a promise of it, or an
\* error thrown or rejected
FnValues == 1..NumValues
FnResults == [promise : BOOLEAN, throws : BOOLEAN, v : FnValues]
ConditionResults ==
    [promise : BOOLEAN, throws : BOOLEAN, isBoolean : BOOLEAN, b : BOOLEAN]

\* const { interval = 1000, timeout = 5000 } = options
Interval(o) == IF o.interval.given THEN o.interval.n ELSE DefaultInterval
Timeout(o) == IF o.timeout.given THEN o.timeout.n ELSE DefaultTimeout

\* faulty: zero passes for a positive integer
PositiveIntegerOrZero(opt) == ~opt.given \/ (opt.isInteger /\ opt.n >= 0)

\* isInteger(x) && x > 0, for an option with its default filled in
PositiveInteger(opt) == ~opt.given \/ (opt.isInteger /\ opt.n > 0)

\* the TypeError the checks of the arguments throw, if any
ArgumentError(o) ==
    IF ~o.fn THEN "fn must be a function"
    ELSE IF ~o.condition THEN "condition must be a function"
    ELSE IF ~PositiveInteger(o.interval) THEN "interval must be a positive integer"
    ELSE IF ~PositiveInteger(o.timeout) THEN "timeout must be a positive integer"
    ELSE NoError

\* await Promise.resolve().then(fn): the value, or the value the promise
\* resolves to
Awaited(r) == r.v

\* faulty: the value of the first call of fn is returned
ReturnFirstValue(v, made) == made[1].value

\* return value
Return(v, made) == v

Rejected(name, message) ==
    [kind |-> "rejected", value |-> NoValue, error |-> <<name, message>>]
Resolved(v) == [kind |-> "resolved", value |-> v, error |-> NoError]

\* waitForConditionalValue(fn, condition, options) up to its first await
WaitForConditionalValue ==
    /\ wpc = "idle"
    /\ \E o \in Arguments :
        /\ ArgumentError(o) = NoError
              => Timeout(o) <= MaxCalls * Interval(o)
        /\ options' = o
        /\ IF ArgumentError(o) # NoError
           THEN /\ settled' = Rejected("TypeError", ArgumentError(o))
                /\ wpc' = "settled"
                /\ UNCHANGED timeoutAt
           ELSE /\ timeoutAt' = now + Timeout(o)
                /\ wpc' = "fn"
                /\ UNCHANGED settled
    /\ UNCHANGED <<now, value, calls>>
    /\ UNCHANGED notWait

\* a call of fn made at time t, before anything has come back
Call(t) == [value |-> NoValue, at |-> t, checked |-> t, met |-> "pending"]

\* const value = await Promise.resolve().then(fn)
CallFn ==
    /\ wpc = "fn"
    /\ Len(calls) < MaxCalls
    /\ \E r \in FnResults, d \in Latencies :
        /\ now' = now + d
        /\ IF r.throws
           THEN /\ settled' = Rejected("Error", "fn")
                /\ wpc' = "settled"
                /\ calls' = Append(calls, [Call(now) EXCEPT !.checked = now',
                                                            !.met = "fn threw"])
                /\ UNCHANGED value
           ELSE /\ value' = Awaited(r)
                /\ calls' = Append(calls, [Call(now) EXCEPT !.value = Awaited(r)])
                /\ wpc' = "condition"
                /\ UNCHANGED settled
    /\ UNCHANGED <<options, timeoutAt>>
    /\ UNCHANGED notWait

\* what condition made of the value
Met(c) ==
    IF c.throws THEN "threw"
    ELSE IF ~c.isBoolean THEN "other" ELSE IF c.b THEN "true" ELSE "false"

\* faulty: whatever condition returns is taken for a boolean
IsBooleanAlways(c) == TRUE

\* isBoolean(conditionResult)
IsBoolean(c) == c.isBoolean

\* faulty: the call gives up only once the deadline has passed
TimedOutLate(t, interval, deadline) == t >= deadline

\* Date.now() + interval >= timeoutAt
TimedOut(t, interval, deadline) == t + interval >= deadline

\* const conditionResult = await Promise.resolve(value).then(condition), and
\* what follows up to the sleep
CallCondition ==
    /\ wpc = "condition"
    /\ \E c \in ConditionResults, d \in Latencies :
        /\ now' = now + d
        /\ calls' = [calls EXCEPT ![Len(calls)].met = Met(c),
                                  ![Len(calls)].checked = now']
        /\ IF c.throws
           THEN /\ settled' = Rejected("Error", "condition")
                /\ wpc' = "settled"
           ELSE IF ~IsBoolean(c)
           THEN /\ settled' = Rejected("TypeError",
                       "condition must return or resolve to a boolean")
                /\ wpc' = "settled"
           ELSE IF c.b
           THEN /\ settled' = Resolved(Return(value, calls'))
                /\ wpc' = "settled"
           ELSE IF TimedOut(now', Interval(options), timeoutAt)
           THEN /\ settled' = Rejected("TimeoutError",
                       "waitForConditionalValue timed out")
                /\ wpc' = "settled"
           ELSE /\ wpc' = "sleep"
                /\ UNCHANGED settled
    /\ UNCHANGED <<options, timeoutAt, value>>
    /\ UNCHANGED notWait

\* faulty: the wait is over after half the interval
SleptHalf(t, interval) == t + interval \div 2

\* faulty: the retry comes without a wait
SleptNot(t, interval) == t

\* the time at which sleep(interval) started at t resolves
Slept(t, interval) == t + interval

\* await sleep(interval)
Sleep ==
    /\ wpc = "sleep"
    /\ now' = Slept(now, Interval(options))
    /\ wpc' = "fn"
    /\ UNCHANGED <<options, timeoutAt, value, calls, settled>>
    /\ UNCHANGED notWait

WaitNext ==
    \/ WaitForConditionalValue
    \/ CallFn
    \/ CallCondition
    \/ Sleep

WaitSpecInit ==
    /\ collection = NoCollection
    /\ EngineInit
    /\ LockInit
    /\ WaitInit
    /\ ExecInit
    /\ ManagerInit
    /\ RuleInit
    /\ AsyncInit
    /\ TaskInit

WaitSpec == WaitSpecInit /\ [][WaitNext]_vars

(* ---------------------- waitForCompletedExecution ---------------------- *)

SleepPeriodMs == 5000
MaxMinutesWaitedForExecutionStart == 5
IterationsPerMinute == 60000 \div SleepPeriodMs
MaxIterationsToStart == MaxMinutesWaitedForExecutionStart * IterationsPerMinute
DefaultExecutionTimeout == 600

\* the timeout of a call, in seconds: left out, or so short that the first
\* sleep outlasts it, or a few sleeps long
ExecutionTimeouts == {DefaultExecutionTimeout, 1, 12}

\* the statuses Step Functions reports for an execution
CompletedStatuses == {"SUCCEEDED", "FAILED", "TIMED_OUT", "ABORTED"}
ExecutionStatuses == {"RUNNING"} \cup CompletedStatuses
\* the codes of the errors describeExecution fails with
DescribeErrors == {"ExecutionDoesNotExist", "AccessDeniedException"}

Execution(status) == [exists |-> TRUE, status |-> status, code |-> NoError]
Failure(code) ==
    [exists |-> code # "ExecutionDoesNotExist", status |-> NoStatus, code |-> code]

\* what describeExecution can come back with, given the status seen before:
\* an execution that was seen running exists from then on
DescribeExecution(seen) ==
    {Execution(s) : s \in ExecutionStatuses}
        \cup {Failure(c) : c \in
                 IF seen = "RUNNING" THEN DescribeErrors \ {"ExecutionDoesNotExist"}
                 ELSE DescribeErrors}
\* the time a call of describeExecution takes, in milliseconds
DescribeLatencies == {0, 1000}

GetExecutionStatus(execution) ==
    IF execution.code # NoError THEN Thrown(execution.code)
    ELSE Returned(execution.status)

WaitForCompletedExecution ==
    /\ epc = "idle"
    /\ \E t \in ExecutionTimeouts :
          /\ timeout' = t
          /\ stopTime' = clock + (t * 1000)
    /\ iteration' = 0
    /\ epc' = "status"
    /\ UNCHANGED <<clock, executionStatus, described, got, completion>>
    /\ UNCHANGED notExec

\* faulty: an execution that does not exist passes as starting for ever
StillStartingForEver(code, n) == code = "ExecutionDoesNotExist"

\* the catch block lets an execution that does not exist yet pass as starting
StillStarting(code, n) ==
    code = "ExecutionDoesNotExist" /\ n <= MaxIterationsToStart

\* the first half of the loop body: getExecutionStatus and the catch block
Status ==
    /\ epc = "status"
    /\ iteration' = iteration + 1
    /\ \E execution \in DescribeExecution(executionStatus), d \in DescribeLatencies :
          /\ clock' = clock + d
          /\ described' = execution
          /\ got' = GetExecutionStatus(execution)
          /\ LET r == GetExecutionStatus(execution)
             IN IF r.kind = "returned"
                THEN /\ executionStatus' = r.status
                     /\ epc' = "sleep"
                     /\ UNCHANGED completion
                ELSE IF StillStarting(r.code, iteration')
                THEN /\ executionStatus' = "STARTING"
                     /\ epc' = "sleep"
                     /\ UNCHANGED completion
                ELSE /\ completion' = Thrown(r.code)
                     /\ epc' = "settled"
                     /\ UNCHANGED executionStatus
    /\ UNCHANGED <<timeout, stopTime>>
    /\ UNCHANGED notExec

\* faulty: an execution that is still starting ends the loop
GoOnWhileRunning(status, t, stop) == status = "RUNNING" /\ t < stop

\* the condition of the do-while loop
GoOn(status, t, stop) == status \in {"RUNNING", "STARTING"} /\ t < stop

\* the second half of the loop body and what follows the loop
SleepPeriod ==
    /\ epc = "sleep"
    /\ clock' = clock + SleepPeriodMs
    /\ IF GoOn(executionStatus, clock', stopTime)
       THEN epc' = "status" /\ UNCHANGED completion
       ELSE IF executionStatus = "RUNNING"
       THEN epc' = "history" /\ UNCHANGED completion
       ELSE epc' = "settled" /\ completion' = Returned(executionStatus)
    /\ UNCHANGED <<timeout, iteration, stopTime, executionStatus, described, got>>
    /\ UNCHANGED notExec

\* the execution timed out: its history is fetched and logged
History ==
    /\ epc = "history"
    /\ epc' = "settled"
    /\ \E fetched \in BOOLEAN :
          completion' = IF fetched THEN Returned(executionStatus)
                        ELSE Thrown("AccessDeniedException")
    /\ UNCHANGED <<timeout, iteration, clock, stopTime, executionStatus,
                   described, got>>
    /\ UNCHANGED notExec

ExecNext ==
    \/ WaitForCompletedExecution
    \/ Status
    \/ SleepPeriod
    \/ History

ExecSpecInit ==
    /\ collection = NoCollection
    /\ EngineInit
    /\ LockInit
    /\ WaitInit
    /\ ExecInit
    /\ ManagerInit
    /\ RuleInit
    /\ AsyncInit
    /\ TaskInit

ExecSpec == ExecSpecInit /\ [][ExecNext]_vars

(* -------------------------- Manager.batchWrite -------------------------- *)

BatchLimit == 25

\* the keys to delete and the items to put: the first n of each
KeyList(n) == [i \in 1..n |-> [name |-> i]]
ItemList(n) == [i \in 1..n |-> [name |-> i, updatedAt |-> "never"]]
DeletesArguments == {Undefined} \cup {List(KeyList(n)) : n \in 0..MaxRequests}
PutsArguments == {Undefined} \cup {List(ItemList(n)) : n \in 0..MaxRequests}

\* (x || [])
OrEmpty(x) == IF x.defined THEN x.list ELSE <<>>

DeleteRequest(Key) == [request |-> "DeleteRequest", body |-> Key]
PutRequest(item) ==
    [request |-> "PutRequest", body |-> [item EXCEPT !.updatedAt = "Date.now()"]]
Requests(d, p) ==
    [i \in 1..Len(OrEmpty(d)) |-> DeleteRequest(OrEmpty(d)[i])]
        \o [i \in 1..Len(OrEmpty(p)) |-> PutRequest(OrEmpty(p)[i])]

\* a JavaScript number: NaN, or n
NaN == [nan |-> TRUE, n |-> 0]
Number(n) == [nan |-> FALSE, n |-> n]
\* the number an array of request objects is converted to when it is
\* compared to a number: that of the string its elements are joined to, which
\* is the empty string for an empty array and names objects otherwise
ToNumber(requests) == IF requests = <<>> THEN Number(0) ELSE NaN
\* x > y
GreaterThan(x, y) == ~x.nan /\ ~y.nan /\ x.n > y.n

\* the calls of dynamodbDocClient.batchWrite end well, or fail
DocClientResults ==
    {[kind |-> "resolved", error |-> NoError],
     [kind |-> "rejected", error |-> "ValidationException"]}

BatchWrite ==
    /\ mpc = "idle"
    /\ mpc' = "settled"
    /\ \E d \in DeletesArguments, p \in PutsArguments :
          /\ deletes' = d
          /\ puts' = p
          /\ IF GreaterThan(ToNumber(Requests(d, p)), Number(BatchLimit))
             THEN /\ written' =
                       [kind |-> "rejected",
                        error |-> "Batch Write supports 25 or fewer bulk actions at the same time"]
                  /\ UNCHANGED batches
             ELSE /\ batches' = Append(batches, Requests(d, p))
                  /\ written' \in DocClientResults
    /\ UNCHANGED <<items, putItems, saved, pages, scanned>>
    /\ UNCHANGED notManager

(* ---------------------------- Manager.create ---------------------------- *)

\* an item that has no createdAt
NoTimestamp == 0
\* the createdAt of an item that was created before
CreatedBefore == 3
\* Date.now() at the call
Now == 5

\* the items given to create: each has a name, may have a createdAt, and is
\* valid or not against the schema
ItemsGiven ==
    [name : 1..MaxItems, createdAt : {NoTimestamp, CreatedBefore},
     updatedAt : {NoTimestamp}, valid : BOOLEAN]
\* create is given an array of items, or one item
CreateArguments ==
    {[isArray |-> TRUE, list |-> l] :
        l \in UNION {[1..n -> ItemsGiven] : n \in 0..MaxItems}}
        \cup {[isArray |-> FALSE, list |-> <<i>>] : i \in ItemsGiven}

\* the clone of an item with its timestamps set
WithTimestamps(item) ==
    [item EXCEPT !.updatedAt = Now,
                 !.createdAt = IF @ = NoTimestamp THEN Now ELSE @]

\* faulty: the timestamps are set on the item itself
NotCloned(original, clone) == clone

\* cloneDeep: the caller's item after its clone was changed
CloneDeep(original, clone) == original

\* recordIsValid throws for the item
Invalid(item, schema) == schema /\ ~item.valid

\* faulty: the items before the first that is not valid are written
PutUntilInvalid(list, schema) ==
    SubSeq(list, 1,
           (CHOOSE i \in 1..Len(list) :
               /\ Invalid(list[i], schema)
               /\ \A j \in 1..(i - 1) : ~Invalid(list[j], schema)) - 1)

\* the items written when one of them is not valid: the forEach that
\* validates comes before the loop that writes
PutWhenInvalid(list, schema) == <<>>

\* Manager.create, for a manager with or without a schema; the put of an item
\* can fail, which ends the loop
ManagerCreate ==
    /\ mpc = "idle"
    /\ mpc' = "created"
    /\ \E given \in CreateArguments, schema \in BOOLEAN, failAt \in 0..MaxItems :
          LET itemsArray == given.list
              itemsWithTimestamps ==
                  [i \in 1..Len(itemsArray) |-> WithTimestamps(itemsArray[i])]
              Settled(kind, e) ==
                  [kind |-> kind, error |-> e, isArray |-> given.isArray,
                   value |-> IF kind = "resolved" THEN itemsWithTimestamps ELSE <<>>]
          IN /\ failAt <= Len(itemsArray)
             /\ items' = [given |-> List(given.list), schema |-> schema,
                          after |-> [i \in 1..Len(itemsArray) |->
                                       CloneDeep(itemsArray[i], itemsWithTimestamps[i])]]
             /\ IF \E i \in 1..Len(itemsArray) : Invalid(itemsWithTimestamps[i], schema)
                THEN /\ putItems' = PutWhenInvalid(itemsWithTimestamps, schema)
                     /\ saved' = Settled("rejected", "SchemaValidationError")
                ELSE IF failAt > 0
                THEN /\ putItems' = SubSeq(itemsWithTimestamps, 1, failAt - 1)
                     /\ saved' = Settled("rejected", "ProvisionedThroughputExceededException")
                ELSE /\ putItems' = itemsWithTimestamps
                     /\ saved' = Settled("resolved", NoError)
    /\ UNCHANGED <<deletes, puts, batches, written, pages, scanned>>
    /\ UNCHANGED notManager

(* ----------------------------- Manager.scan ----------------------------- *)

\* the records of a table that comes in the pages of the given sizes: the
\* j-th record of page k is <<k, j>>
Paged(sizes) == [k \in 1..Len(sizes) |-> [j \in 1..sizes[k] |-> <<k, j>>]]
Tables == {Paged(sizes) : sizes \in UNION {[1..n -> 0..2] : n \in 1..MaxPages}}

\* scan from page k on: the response for the page, and when it has a
\* LastEvaluatedKey, what the scan from the next page on adds to it
RECURSIVE ScanFrom(_, _)
ScanFrom(records, k) ==
    LET resp == [Items |-> records[k], Count |-> Len(records[k])]
    IN IF k < Len(records)
       THEN LET more == ScanFrom(records, k + 1)
            IN [Items |-> more.Items \o more.Items,
                Count |-> resp.Count + more.Count]
       ELSE resp

Scan ==
    /\ mpc = "idle"
    /\ mpc' = "scanned"
    /\ \E records \in Tables :
          /\ pages' = records
          /\ scanned' = ScanFrom(records, 1)
    /\ UNCHANGED <<deletes, puts, batches, written, items, putItems, saved>>
    /\ UNCHANGED notManager

ManagerNext ==
    \/ BatchWrite
    \/ ManagerCreate
    \/ Scan

ManagerSpecInit ==
    /\ collection = NoCollection
    /\ EngineInit
    /\ LockInit
    /\ WaitInit
    /\ ExecInit
    /\ ManagerInit
    /\ RuleInit
    /\ AsyncInit
    /\ TaskInit

ManagerSpec == ManagerSpecInit /\ [][ManagerNext]_vars

(* ------------------------------- Rule ----------------------------------- *)

RuleTypes == {"onetime", "scheduled", "kinesis", "sns"}
RuleStates == {"ENABLED", "DISABLED"}
\* the schedule expression, or the stream, of a rule
RuleValues == {"stream_a", "stream_b"}
\* the items handed to create: the name can hold a character that is no word
\* character, and the state can be left out
Items ==
    [name : RuleNames \cup {"rule-3"},
     state : RuleStates \cup {NoState},
     rule : [type : RuleTypes, value : RuleValues, arn : {NoArn}]]

\* faulty: the name is not tested
HasNonWordCharacterNever(name) == FALSE

\* /[^\w]/.test(name)
HasNonWordCharacter(name) == name = "rule-3"

\* faulty: the state is left as it was given
StateAsGiven(state) == state

\* the default state is 'ENABLED'
DefaultState(state) == IF state = NoState THEN "ENABLED" ELSE state

\* Enabled: item.state === 'ENABLED', as the state of the mapping
Enabled(state) == IF state = "ENABLED" THEN "Enabled" ELSE "Disabled"

\* faulty: no mapping is ever taken as shared
IsEventSourceMappingSharedNever(name, arn, rls) == FALSE

\* another rule of the table uses the mapping
IsEventSourceMappingShared(name, arn, rls) ==
    \E n \in RuleNames :
        /\ rls[n].name # Null /\ rls[n].name # name
        /\ rls[n].rule.type = "kinesis"
        /\ rls[n].rule.arn = arn

DeleteKinesisEventSource(name, arn, maps, rls) ==
    IF IsEventSourceMappingShared(name, arn, rls) THEN maps
    ELSE {m \in maps : m.UUID # arn}

\* the UUID Lambda gives a new mapping: one that names no mapping, and that
\* no stored rule holds
FreshUuid(maps, rls) ==
    LET used == {m.UUID : m \in maps}
                \cup {rls[n].rule.arn : n \in {k \in RuleNames : rls[k] # NoRule}}
    IN CHOOSE u \in 1..(Cardinality(used) + 1) :
           /\ u \notin used
           /\ \A v \in 1..(u - 1) : v \in used

\* createEventSourceMapping for the consumer and a stream, under the
\* identifier uuid: Lambda refuses a second mapping of a stream to the
\* function (ResourceConflictException)
CreateEventSourceMapping(stream, state, maps, uuid) ==
    IF \E m \in maps : m.EventSourceArn = stream
    THEN [conflict |-> TRUE, mappings |-> maps, arn |-> NoArn]
    ELSE [conflict |-> FALSE,
          mappings |-> maps \cup {[UUID |-> uuid, EventSourceArn |-> stream,
                                   State |-> Enabled(state)]},
          arn |-> uuid]

\* the mappings, and the arn of the item, addKinesisEventSource can end
\* with: a mapping of the stream that is enabled is used as it is, one that
\* is not is deleted, unless it is shared, and a mapping is created
AddKinesisEventSource(item, maps, rls, uuid) ==
    LET mappingExists == {m \in maps : m.EventSourceArn = item.rule.value}
    IN IF mappingExists = {}
       THEN {CreateEventSourceMapping(item.rule.value, item.state, maps, uuid)}
       ELSE {IF m.State = "Enabled"
             THEN [conflict |-> FALSE, mappings |-> maps, arn |-> m.UUID]
             ELSE CreateEventSourceMapping(
                      item.rule.value, item.state,
                      DeleteKinesisEventSource(item.name, m.UUID, maps, rls), uuid)
             : m \in mappingExists}

UpdateKinesisEventSource(item, maps) ==
    {IF m.UUID = item.rule.arn THEN [m EXCEPT !.State = Enabled(item.state)] ELSE m
     : m \in maps}

\* Rule.create: the name is checked, the state defaulted, the workflow looked
\* up, the side effect of the rule's type performed and the record saved;
\* the workflow may not exist, and the record may be refused by the table
Create ==
    /\ creates < MaxRules
    /\ creates' = creates + 1
    /\ UNCHANGED removed
    /\ \E given \in Items, exists \in BOOLEAN, stored \in BOOLEAN :
          LET item == [given EXCEPT !.state = DefaultState(given.state)]
              Failed(e, it) ==
                  /\ created' = [kind |-> "rejected", error |-> e,
                                 given |-> given, item |-> it,
                                 lookup |-> ~HasNonWordCharacter(given.name),
                                 workflow |-> exists]
                  /\ UNCHANGED rules
              Save(it) ==
                  IF stored
                  THEN /\ rules' = [rules EXCEPT ![it.name] = it]
                       /\ created' = [kind |-> "resolved", error |-> NoError,
                                      given |-> given, item |-> it,
                                      lookup |-> TRUE, workflow |-> exists]
                  ELSE Failed("ValidationException", it)
          IN IF HasNonWordCharacter(given.name)
             THEN /\ Failed("Names may only contain letters, numbers, and underscores.",
                           given)
                  /\ UNCHANGED <<schedules, mappings, invoked>>
             ELSE IF ~exists
             THEN /\ Failed("Workflow doesn't exist", item)
                  /\ UNCHANGED <<schedules, mappings, invoked>>
             ELSE CASE item.rule.type = "onetime" ->
                          /\ invoked' = invoked \cup {item.name}
                          /\ UNCHANGED <<schedules, mappings>>
                          /\ Save(item)
                    [] item.rule.type = "scheduled" ->
                          /\ schedules' = [schedules EXCEPT ![item.name] =
                                [value |-> item.rule.value, state |-> item.state]]
                          /\ UNCHANGED <<mappings, invoked>>
                          /\ Save(item)
                    [] item.rule.type = "kinesis" ->
                          \E r \in AddKinesisEventSource(
                                    item, mappings, rules, FreshUuid(mappings, rules)) :
                              /\ mappings' = r.mappings
                              /\ UNCHANGED <<schedules, invoked>>
                              /\ IF r.conflict
                                 THEN Failed("ResourceConflictException", item)
                                 ELSE Save([item EXCEPT !.rule.arn = r.arn])
                    [] OTHER ->
                          /\ Failed("Type not supported", item)
                          /\ UNCHANGED <<schedules, mappings, invoked>>
    /\ refused' = (refused \/ created'.kind = "rejected")
    /\ UNCHANGED notRule

\* the fields Rule.update can be given: a state, a value of the rule, both
\* or neither
NoRuleValue == "undefined"

\* Rule.update of a stored rule: the state and the value given are written
\* to the original, the side effect of the rule's type is performed with the
\* original, and the fields given are saved; the workflow of a scheduled
\* rule may not exist
Update ==
    /\ \E n \in RuleNames, state \in RuleStates \cup {NoState},
          newValue \in RuleValues \cup {NoRuleValue}, exists \in BOOLEAN :
          /\ rules[n] # NoRule
          /\ LET valueUpdated == newValue # NoRuleValue
                 original ==
                     [rules[n] EXCEPT
                        !.state = IF state # NoState THEN state ELSE @,
                        !.rule.value = IF valueUpdated THEN newValue ELSE @]
                 \* super.update: updated.state, and updated.rule as a whole
                 Saved(arn) ==
                     [rules[n] EXCEPT
                        !.state = IF state # NoState THEN state ELSE @,
                        !.rule = IF valueUpdated
                                 THEN [type |-> @.type, value |-> newValue, arn |-> arn]
                                 ELSE @]
             IN CASE original.rule.type = "scheduled" /\ ~exists ->
                         /\ refused' = TRUE
                         /\ UNCHANGED <<rules, schedules, mappings>>
                  [] original.rule.type = "scheduled" /\ exists ->
                         /\ schedules' = [schedules EXCEPT ![n] =
                               [value |-> original.rule.value,
                                state |-> original.state]]
                         /\ rules' = [rules EXCEPT ![n] = Saved(NoArn)]
                         /\ UNCHANGED <<mappings, refused>>
                  [] original.rule.type = "kinesis" /\ valueUpdated ->
                         LET deleted == DeleteKinesisEventSource(
                                 original.name, original.rule.arn, mappings, rules)
                         IN \E r \in AddKinesisEventSource(
                                  original, deleted, rules, FreshUuid(mappings, rules)) :
                                /\ mappings' = r.mappings
                                /\ rules' = IF r.conflict THEN rules
                                            ELSE [rules EXCEPT ![n] = Saved(r.arn)]
                                /\ refused' = (refused \/ r.conflict)
                                /\ UNCHANGED schedules
                  [] original.rule.type = "kinesis" /\ ~valueUpdated ->
                         /\ mappings' = UpdateKinesisEventSource(original, mappings)
                         /\ rules' = [rules EXCEPT ![n] = Saved(NoArn)]
                         /\ UNCHANGED <<schedules, refused>>
                  [] OTHER ->
                         /\ rules' = [rules EXCEPT ![n] = Saved(NoArn)]
                         /\ UNCHANGED <<schedules, mappings, refused>>
    /\ UNCHANGED <<invoked, creates, created, removed>>
    /\ UNCHANGED notRule

\* Rule.delete of a stored rule: the event of a scheduled rule, or the
\* mapping of a kinesis rule that no other rule shares, is deleted, and then
\* the record; a call of AWS that fails leaves the record in place
Delete ==
    /\ \E n \in RuleNames, deleted \in BOOLEAN :
          /\ rules[n] # NoRule
          /\ LET item == rules[n]
             IN IF ~deleted
                THEN /\ refused' = TRUE
                     /\ UNCHANGED <<rules, schedules, mappings, removed>>
                ELSE /\ UNCHANGED refused
                     /\ CASE item.rule.type = "scheduled" ->
                               /\ schedules' = [schedules EXCEPT ![n] = NoSchedule]
                               /\ UNCHANGED mappings
                          [] item.rule.type = "kinesis" ->
                               /\ mappings' = DeleteKinesisEventSource(
                                     item.name, item.rule.arn, mappings, rules)
                               /\ UNCHANGED schedules
                          [] OTHER -> UNCHANGED <<schedules, mappings>>
                     /\ rules' = [rules EXCEPT ![n] = NoRule]
                     /\ removed' = item
    /\ UNCHANGED <<invoked, creates, created>>
    /\ UNCHANGED notRule

RuleNext ==
    \/ Create
    \/ Update
    \/ Delete

RuleSpecInit ==
    /\ collection = NoCollection
    /\ EngineInit
    /\ LockInit
    /\ WaitInit
    /\ ExecInit
    /\ ManagerInit
    /\ RuleInit
    /\ AsyncInit
    /\ TaskInit

RuleSpec == RuleSpecInit /\ [][RuleNext]_vars

(* --------------------- waitForAsyncOperationStatus --------------------- *)

DefaultRetries == 5
RetryPeriodMs == 2000

\* the statuses of an AsyncOperation
OperationStatuses == {"RUNNING", "SUCCEEDED", "TASK_FAILED"}
\* retries: left out, or a number of times
RetriesArguments == {DefaultRetries} \cup 0..MaxRetries

WaitForAsyncOperationStatus ==
    /\ apc = "idle"
    /\ \E status \in {"SUCCEEDED", "TASK_FAILED"}, r \in RetriesArguments :
          /\ params' = [status |-> status, retries |-> r]
          /\ retries' = r
    /\ apc' = "getItem"
    /\ UNCHANGED <<reads, elapsed, operation>>
    /\ UNCHANGED notAsync

\* faulty: one more read is made when no retries are left
ExhaustedLate(n) == n < 0

\* retries <= 0
Exhausted(n) == n <= 0

\* getItem and what the call makes of the item: it returns it, or sleeps
\* before the next call of the recursion; a getItem that fails rejects
GetItem ==
    /\ apc = "getItem"
    /\ \E Item \in {OperationItem(st) : st \in OperationStatuses} \cup {NoItem} :
          /\ reads' = Append(reads, Item)
          /\ IF ~Item.read
             THEN /\ apc' = "settled"
                  /\ operation' = [kind |-> "rejected", item |-> NoItem]
             ELSE IF Item.status = params.status \/ Exhausted(retries)
             THEN /\ apc' = "settled"
                  /\ operation' = [kind |-> "resolved", item |-> Item]
             ELSE /\ apc' = "sleep"
                  /\ UNCHANGED operation
    /\ UNCHANGED <<params, retries, elapsed>>
    /\ UNCHANGED notAsync

\* await sleep(2000), then the next call of the recursion
SleepThenRetry ==
    /\ apc = "sleep"
    /\ elapsed' = elapsed + RetryPeriodMs
    /\ retries' = retries - 1
    /\ apc' = "getItem"
    /\ UNCHANGED <<params, reads, operation>>
    /\ UNCHANGED notAsync

AsyncNext ==
    \/ WaitForAsyncOperationStatus
    \/ GetItem
    \/ SleepThenRetry

AsyncSpecInit ==
    /\ collection = NoCollection
    /\ EngineInit
    /\ LockInit
    /\ WaitInit
    /\ ExecInit
    /\ ManagerInit
    /\ RuleInit
    /\ AsyncInit
    /\ TaskInit

AsyncSpec == AsyncSpecInit /\ [][AsyncNext]_vars

(* ---------------------------- task handlers --------------------------- *)

\* the time the handlers' clock can reach
MaxTime == 2

\* 2 * 60 * 1000: the duration past which the cleanup task fails
TooLong == 120000

\* how a call of syncGranule(event) can end: reading event.meta.stack or
\* event.meta.buckets.private.name of a message without them throws, as the
\* selection of the adapter can; without a provider the promise returned is
\* rejected; otherwise the promise resolves with the output or rejects
SyncGranuleOutcomes(e) ==
    LET Threw(x) == [kind |-> "thrown", error |-> x, granules |-> Null,
                     process |-> FALSE]
        Rejects(x) == [kind |-> "rejected", error |-> x, granules |-> Null,
                       process |-> FALSE]
    IN IF ~e.meta.defined \/ ~e.meta.private THEN {Threw("TypeError")}
       ELSE IF ~e.meta.provider THEN {Rejects("ProviderNotFound")}
       ELSE {Threw("UnsupportedProtocol"), Rejects("RemoteResourceError"),
             [kind |-> "resolved", error |-> NoError, granules |-> "synced",
              process |-> e.meta.process]}

\* additionalMetaFields
AdditionalMetaFields(start, end) ==
    [sync_granule_duration |-> end - start, sync_granule_end_time |-> end]

\* Object.assign({}, event, { meta, payload }), meta being event.meta with
\* the additional fields and payload event.payload with data over it
Output(e, data, start, end) ==
    [config |-> e.config,
     meta |-> [event |-> e.meta, additional |-> AdditionalMetaFields(start, end)],
     payload |-> [granules |-> data.granules, pdr |-> e.payload.pdr,
                  process |-> data.process]]
NoOutput ==
    [config |-> Null,
     meta |-> [event |-> NoMeta, additional |-> AdditionalMetaFields(0, 0)],
     payload |-> [granules |-> Null, pdr |-> Null, process |-> FALSE]]

\* the sync-granule handler up to its return: startTime is read and
\* syncGranule called; what syncGranule throws, the handler throws
Handler ==
    /\ hpc = "idle"
    /\ \E e \in Messages :
          /\ hevent' = e
          /\ \E o \in SyncGranuleOutcomes(e) :
                /\ synced' = o
                /\ hpc' = IF o.kind = "thrown" THEN "threw" ELSE "pending"
    /\ startTime' = dateNow
    /\ UNCHANGED <<dateNow, callbacks, cpc, cleaned, deletion, cleanups>>
    /\ UNCHANGED notTask

\* time goes by, before the handler is called and while syncGranule works
Elapse ==
    /\ hpc \in {"idle", "pending"}
    /\ dateNow < MaxTime
    /\ dateNow' = dateNow + 1
    /\ UNCHANGED <<hpc, hevent, startTime, synced, callbacks, cpc, cleaned,
                   deletion, cleanups>>
    /\ UNCHANGED notTask

\* then: the callback is given the event with meta and payload replaced
HandlerThen ==
    /\ hpc = "pending"
    /\ synced.kind = "resolved"
    /\ callbacks' = Append(callbacks,
          [error |-> NoError, data |-> Output(hevent, synced, startTime, dateNow)])
    /\ hpc' = "returned"
    /\ UNCHANGED <<hevent, startTime, dateNow, synced, cpc, cleaned, deletion,
                   cleanups>>
    /\ UNCHANGED notTask

\* catch: the callback is given the error
HandlerCatch ==
    /\ hpc = "pending"
    /\ synced.kind = "rejected"
    /\ callbacks' = Append(callbacks, [error |-> synced.error, data |-> NoOutput])
    /\ hpc' = "returned"
    /\ UNCHANGED <<hevent, startTime, dateNow, synced, cpc, cleaned, deletion,
                   cleanups>>
    /\ UNCHANGED notTask

\* the cleanup handler, from its call to its return: the duration is read,
\* cleanFiles is called and its promise dropped, and the callback is called;
\* cleanFiles rejects at once for a payload without a file, and starts the
\* deletion otherwise
CleanupHandler ==
    /\ cpc = "idle"
    /\ \E e \in CleanupEvents :
          /\ cleaned' = e
          /\ IF ~e.meta
             THEN /\ cpc' = "threw"
                  /\ UNCHANGED <<deletion, cleanups>>
             ELSE /\ cpc' = "returned"
                  /\ deletion' = IF e.file THEN "running" ELSE "rejected"
                  /\ cleanups' = Append(cleanups,
                        IF e.sync_granule_duration > TooLong
                        THEN [error |-> "SyncGranule Took too long to finish",
                              event |-> NoCleanupEvent]
                        ELSE [error |-> NoError, event |-> e])
    /\ UNCHANGED <<hpc, hevent, startTime, dateNow, synced, callbacks>>
    /\ UNCHANGED notTask

\* aws.deleteS3Object settles: the file is deleted, or the deletion fails
DeleteS3Object ==
    /\ deletion = "running"
    /\ deletion' \in {"finished", "rejected"}
    /\ UNCHANGED <<hpc, hevent, startTime, dateNow, synced, callbacks, cpc,
                   cleaned, cleanups>>
    /\ UNCHANGED notTask

TaskNext ==
    \/ Handler
    \/ Elapse
    \/ HandlerThen
    \/ HandlerCatch
    \/ CleanupHandler
    \/ DeleteS3Object

TaskSpecInit ==
    /\ collection = NoCollection
    /\ EngineInit
    /\ LockInit
    /\ WaitInit
    /\ ExecInit
    /\ ManagerInit
    /\ RuleInit
    /\ AsyncInit
    /\ TaskInit

TaskSpec == TaskSpecInit /\ [][TaskNext]_vars

(* ============================== claims ================================= *)

\* the collection's configured mode
Mode == collection.duplicateHandling

\* invocation i is inside download's loop, ingesting granule cur[i].g
Ingesting(i) == pc[i] \in {"fetch", "stage"}

\* the destination key of the file invocation i has in hand
DestKey(i) == <<cur[i].g, Files(cur[i].g)[cur[i].f]>>

\* the destination of the file in hand holds an object whose checksum differs
\* from the declared checksum of the incoming file
Differs(i) ==
    /\ store[DestKey(i)] # NoObject
    /\ cur[i].incoming.declared
    /\ Checksum(store[DestKey(i)]) # Checksum(cur[i].incoming.content)

\* this step is invocation i's evaluation of the policy for the file in hand
StageStep(i) == pc[i] = "stage" /\ pc'[i] # "stage"

\* the record invocation i finalized in this step
Finalized(i) ==
    IF pc'[i] = "fetch" /\ cur'[i].g = cur[i].g
    THEN cur'[i].files[Len(cur'[i].files)]
    ELSE LET r == done'[i][Len(done'[i])] IN r.files[Len(r.files)]

\* invocation i is on the second file of the first granule, the file it
\* fetched for the first still in hand
PastFirstFile(i) ==
    /\ pc[i] = "fetch"
    /\ cur[i].g = 1
    /\ cur[i].f = 2
    /\ cur[i].incoming.declared

\* C1: at no time are two invocations ingesting the same provider/granule
C1_AtMostOneIngesting ==
    \A i, j \in Invocations :
        (i # j /\ Ingesting(i) /\ Ingesting(j))
            => (lockKey[i][1] # lockKey[j][1] \/ cur[i].g # cur[j].g)

\* C2: of two invocations for the same (provider, granule) key, the second
\* never passes the lock check while the first is still in download
C2_SecondNeverProceedsWhileHeld ==
    [][\A i \in Invocations :
          (pc[i] = "called" /\ pc'[i] = "fetch")
              => ~\E j \in Invocations :
                    j # i /\ Ingesting(j) /\ lockKey[j] = lockKey'[i]]_vars

\* C3: every invocation that constructed an adapter has called its end() by
\* the time the promise has settled
C3_TeardownOnEveryExit ==
    \A i \in Invocations :
        (pc[i] = "settled" /\ adapter[i].made /\ adapter[i].hasEnd)
            => endCalls[i] >= 1

\* one invocation resolved and the other was rejected by the policy, both
\* with the adapter torn down
C3_Witness ==
    \E i, j \in Invocations :
        /\ outcome[i].kind = "resolved" /\ endCalls[i] >= 1
        /\ outcome[j].kind = "rejected" /\ outcome[j].error = "DuplicateFile"
        /\ endCalls[j] >= 1

C7_ErrorRejects ==
    [][\A i \in Invocations :
          /\ (StageStep(i) /\ Mode = "error" /\ Differs(i))
                => /\ err'[i] = "DuplicateFile"
                   /\ pc'[i] = "catch"
                   /\ store' = store /\ versions' = versions
                   /\ done'[i] = done[i] /\ todo'[i] = todo[i]
          /\ (pc[i] = "catch" /\ err[i] = "DuplicateFile" /\ pc'[i] # "catch")
                => /\ outcome'[i].kind = "rejected"
                   /\ outcome'[i].error = "DuplicateFile"
                   /\ store' = store /\ versions' = versions]_vars

\* download has thrown DuplicateFile for a file whose declared checksum
\* differs from the staged object's
C7_Witness ==
    \E i \in Invocations :
        /\ Mode = "error"
        /\ pc[i] = "catch" /\ err[i] = "DuplicateFile"
        /\ Differs(i)

\* C8: mode skip and an existing object with a differing checksum: no error,
\* no object is written or created, the record carries duplicate_found, and
\* the records reach the output as they are
C8_SkipKeepsExisting ==
    [][\A i \in Invocations :
          /\ (StageStep(i) /\ Mode = "skip" /\ Differs(i))
                => /\ pc'[i] # "catch" /\ err'[i] = NoError
                   /\ store' = store /\ versions' = versions
                   /\ Finalized(i).duplicate_found
                   /\ Finalized(i).name = DestKey(i)
          /\ (pc[i] = "then" /\ pc'[i] # "then" /\ Mode = "skip")
                => /\ outcome'[i].kind = "resolved"
                   /\ outcome'[i].granules = done[i]]_vars

\* a file was skipped: its record carries duplicate_found and the staged
\* object still differs from the file that was fetched
C8_Witness ==
    \E i \in Invocations :
        /\ Mode = "skip"
        /\ PastFirstFile(i)
        /\ cur[i].files[1].duplicate_found
        /\ store[<<1, Files(1)[1]>>] \notin {NoObject, cur[i].incoming.content}

\* C9: mode version and an existing object with a differing checksum: the
\* existing object stays at the destination key, the incoming file is staged
\* under another name, and nothing held before is lost
C9_VersionKeepsBoth ==
    [][\A i \in Invocations :
          (StageStep(i) /\ Mode = "version" /\ Differs(i))
              => /\ pc'[i] # "catch"
                 /\ store' = store
                 /\ cur[i].incoming.content \in versions'[DestKey(i)]
                 /\ \A k \in Keys : versions[k] \subseteq versions'[k]
                 /\ Finalized(i).staged # <<DestKey(i)[1], DestKey(i)[2], NoChecksum>>]_vars

\* a file was versioned: the object at the destination key is the old one
\* and the file that was fetched is held under its own name
C9_Witness ==
    \E i \in Invocations :
        /\ Mode = "version"
        /\ PastFirstFile(i)
        /\ cur[i].files[1].duplicate_found
        /\ store[<<1, Files(1)[1]>>] \notin {NoObject, cur[i].incoming.content}
        /\ cur[i].incoming.content \in versions[<<1, Files(1)[1]>>]

\* C10: mode replace: the object at the destination key after the call is
\* the incoming file, whatever was there
C10_ReplaceOverwrites ==
    [][\A i \in Invocations :
          (StageStep(i) /\ Mode = "replace")
              => /\ pc'[i] # "catch"
                 /\ store'[DestKey(i)] = cur[i].incoming.content
                 /\ \A k \in Keys \ {DestKey(i)} : store'[k] = store[k]]_vars

\* both invocations staged the same file with different contents, and the
\* one that met the other's object has replaced it
C10_Witness ==
    \E i, j \in Invocations :
        /\ Mode = "replace"
        /\ PastFirstFile(i) /\ PastFirstFile(j)
        /\ cur[i].files[1].duplicate_found
        /\ cur[j].incoming.content # cur[i].incoming.content
        /\ store[<<1, Files(1)[1]>>] = cur[i].incoming.content

\* the destination of the file in hand holds an object whose checksum is the
\* declared checksum of the incoming file
Identical(i) ==
    /\ store[DestKey(i)] # NoObject
    /\ cur[i].incoming.declared
    /\ Checksum(store[DestKey(i)]) = Checksum(cur[i].incoming.content)

Wedged(k) ==
    /\ Unexpired(table[k])
    /\ lpc[table[k].owner] = "crashed"
    /\ lkey[table[k].owner] = k

\* a client holds key k under an entry of its own
Acquired(k) == \E c \in Clients : Holds(c, k) /\ table[k].owner = c

C12_DefaultsToError ==
    \A i \in Invocations :
        adapter[i].made
            => adapter[i].duplicateHandling =
                  IF collection.present /\ collection.duplicateHandling # Null
                  THEN collection.duplicateHandling ELSE "error"

\* C13: the error the caller receives for an aborted ingest identifies the
\* granules that were ingested before the failure
C13_PartialProgressInError ==
    [][\A i \in Invocations :
          (pc[i] = "catch" /\ pc'[i] = "settled")
              => outcome'[i].granules = done[i]]_vars

\* this step is invocation i's call of syncGranule
SyncStep(i) == pc[i] = "called" /\ pc'[i] # "called"

\* the granule ids of a list of ingested granules
GranuleIdsOf(granules) == [n \in 1..Len(granules) |-> granules[n].granuleId]

\* the granules download has finished, is working on and has yet to start
Order(i) ==
    GranuleIdsOf(done[i])
        \o (IF cur[i].g # 0 THEN <<cur[i].g>> ELSE <<>>)
        \o todo[i]

\* C14: download works through input.granules one at a time and in order:
\* the granule in hand is the one after those finished, the rest have not
\* been started, and the output lists the granules in the order of the input
C14_SequentialInOrder ==
    [][\A i \in Invocations :
          /\ pc'[i] \in {"fetch", "stage", "then", "catch"}
                => /\ Order(i)' = input'[i]
                   /\ Len(done'[i]) <= Len(input'[i])
          /\ Ingesting(i)'
                => cur'[i].g = input'[i][Len(done'[i]) + 1]
          /\ (pc[i] = "then" /\ pc'[i] = "settled")
                => GranuleIdsOf(outcome'[i].granules) = input[i]]_vars

\* two granules given as 2, 1 were ingested and returned as 2, 1
C14_Witness ==
    \E i \in Invocations :
        /\ outcome[i].kind = "resolved"
        /\ GranuleIdsOf(outcome[i].granules) = <<2, 1>>

\* C15: download never retries: a call of ingest.ingest is made only for the
\* first granule or after the call before it resolved, always for the next
\* granule of the input, and after a call has failed none is made at all
C15_NoRetry ==
    [][\A i \in Invocations :
          /\ (pc[i] \in {"fetch", "stage"} /\ pc'[i] = "fetch"
                /\ cur'[i].f = 1 /\ cur'[i] # cur[i])
                => /\ Len(done'[i]) = Len(done[i]) + 1
                   /\ cur'[i].g = input[i][Len(done'[i]) + 1]
          /\ (pc[i] = "called" /\ pc'[i] = "fetch")
                => done'[i] = <<>> /\ cur'[i].g = input'[i][1]
          /\ (pc[i] \in {"fetch", "stage"} /\ err'[i] # NoError)
                => /\ pc'[i] = "catch"
                   /\ todo'[i] = todo[i] /\ done'[i] = done[i]
          /\ pc[i] \in {"catch", "settled"}
                => pc'[i] \notin {"fetch", "stage"}]_vars

\* the first granule failed and the second was never started
C15_Witness ==
    \E i \in Invocations :
        /\ pc[i] = "catch"
        /\ err[i] \in TransportErrors
        /\ done[i] = <<>> /\ todo[i] # <<>>

\* nothing has been done, or is ever done, for invocation i beyond settling
\* its promise
NothingDone(i) ==
    /\ ~adapter[i].made
    /\ lockKey[i] = NoKey
    /\ endCalls[i] = 0
    /\ cur[i] = NoCur /\ input[i] = <<>> /\ done[i] = <<>> /\ todo[i] = <<>>

\* C16: a provider with an unsupported protocol makes syncGranule throw
\* UnsupportedProtocol at the selection of the adapter: no adapter is made,
\* no lock key is worked out, nothing is ingested, then or later
C16_UnsupportedProtocolFailsFast ==
    [][\A i \in Invocations :
          /\ (SyncStep(i) /\ event[i].provider # NoProvider
                /\ event[i].provider.protocol \notin SupportedProtocols)
                => /\ outcome'[i].kind = "thrown"
                   /\ outcome'[i].error = "UnsupportedProtocol"
                   /\ pc'[i] = "settled"
                   /\ NothingDone(i)'
                   /\ store' = store /\ versions' = versions
          /\ outcome[i].error = "UnsupportedProtocol"
                => pc'[i] = "settled" /\ NothingDone(i)']_vars

\* one invocation failed on its protocol while the other was ingesting
C16_Witness ==
    \E i, j \in Invocations :
        /\ outcome[i].error = "UnsupportedProtocol"
        /\ Ingesting(j)

\* C17: with no provider in the event syncGranule returns a promise rejected
\* with ProviderNotFound: no adapter is made, nothing is ingested, no
\* teardown is called, then or later
C17_ProviderNotFound ==
    [][\A i \in Invocations :
          /\ (SyncStep(i) /\ event[i].provider = NoProvider)
                => /\ outcome'[i].kind = "rejected"
                   /\ outcome'[i].error = "ProviderNotFound"
                   /\ pc'[i] = "settled"
                   /\ NothingDone(i)'
                   /\ store' = store /\ versions' = versions
          /\ outcome[i].error = "ProviderNotFound"
                => pc'[i] = "settled" /\ NothingDone(i)']_vars

\* one invocation was rejected for want of a provider while the other went on
\* to resolve
C17_Witness ==
    \E i, j \in Invocations :
        /\ outcome[i].kind = "rejected"
        /\ outcome[i].error = "ProviderNotFound"
        /\ outcome[j].kind = "resolved"

\* C18: an error that leaves syncGranule because a transfer failed is one of
\* the normalized kinds
C18_TransportErrorsNormalized ==
    [][\A i \in Invocations :
          (pc[i] = "catch" /\ err[i] \in TransportErrors /\ pc'[i] = "settled")
              => outcome'[i].error \in NormalizedErrors]_vars

\* C19: the staging directory handed to the adapter is scoped by the stack
\* and the collection: another collection of the same stack would not get it
C19_StagingDirPerCollection ==
    [][\A i \in Invocations :
          (SyncStep(i) /\ adapter'[i].made /\ event[i].collection.present)
              => \A n \in CollectionNames \ {event[i].collection.name} :
                    adapter'[i].fileStagingDir
                        # FileStagingDir(event[i].stack,
                                         EventCollection(collection, n))]_vars

\* C20: waitForConditionalValue resolves to the value of the call of fn for
\* which condition held: that call is the last one, condition was false for
\* every call before it, and no value is returned otherwise
C20_ResolvesToSatisfyingValue ==
    /\ settled.kind = "resolved"
          => /\ calls # <<>>
             /\ calls[Len(calls)].met = "true"
             /\ settled.value = calls[Len(calls)].value
    /\ \A m \in 1..Len(calls) :
          /\ calls[m].met = "true"
                => /\ m = Len(calls)
                   /\ wpc = "settled"
                   /\ settled = Resolved(calls[m].value)
          /\ m < Len(calls) => calls[m].met = "false"

\* the call resolved to the value of its third call of fn, which is not the
\* value of the first
C20_Witness ==
    /\ settled.kind = "resolved"
    /\ Len(calls) = 3
    /\ calls[1].value # settled.value

\* the call was rejected with the error called name
RejectedWith(name) == settled.kind = "rejected" /\ settled.error[1] = name

C22_RetriesAfterInterval ==
    \A m \in 1..(Len(calls) - 1) :
        /\ 10 * (calls[m + 1].at - calls[m].at) > 8 * Interval(options)
        /\ 10 * (calls[m + 1].at - calls[m].at) < 12 * Interval(options)

\* C22, amended: fn is called again only after a false condition and one
\* interval after that condition came back, so two consecutive calls are the
\* interval plus the time of the earlier call apart, never less than the
\* interval
C22_RetriesOneIntervalAfterCheck ==
    \A m \in 1..(Len(calls) - 1) :
        /\ calls[m].met = "false"
        /\ calls[m + 1].at = calls[m].checked + Interval(options)
        /\ calls[m + 1].at - calls[m].at >= Interval(options)

\* with an interval of 100 ms the second call of fn came 200 ms after the
\* first, which took 50 ms, as did its condition
C22_Witness ==
    /\ options.interval = Given(100)
    /\ Len(calls) >= 2
    /\ calls[1].checked - calls[1].at = 100
    /\ calls[2].at - calls[1].at = 200

\* an option that was given and is not a positive integer
NotPositiveInteger(opt) == opt.given /\ (~opt.isInteger \/ opt.n <= 0)

\* C23: a call whose fn or condition is no function, or whose interval or
\* timeout is no positive integer, is rejected with the TypeError of the
\* first of these checks that fails, with no call of fn or condition and no
\* wait; no other call is rejected with one of these errors
C23_BadArgumentsRejected ==
    wpc # "idle"
        => LET message ==
                   IF ~options.fn THEN "fn must be a function"
                   ELSE IF ~options.condition THEN "condition must be a function"
                   ELSE IF NotPositiveInteger(options.interval)
                        THEN "interval must be a positive integer"
                   ELSE IF NotPositiveInteger(options.timeout)
                        THEN "timeout must be a positive integer"
                   ELSE NoError
           IN IF message # NoError
              THEN /\ wpc = "settled"
                   /\ settled = Rejected("TypeError", message)
                   /\ calls = <<>>
                   /\ now = 0
              ELSE RejectedWith("TypeError")
                      => settled.error[2]
                            = "condition must return or resolve to a boolean"

\* a call with an interval of 0 was rejected
C23_Witness ==
    /\ options.fn /\ options.condition
    /\ options.interval = Given(0)
    /\ settled = Rejected("TypeError", "interval must be a positive integer")

\* C24: a condition that comes back with something that is no boolean ends
\* the call at that iteration with the TypeError for it: fn is not called
\* again and the call neither resolves nor times out
C24_NonBooleanConditionRejected ==
    \A m \in 1..Len(calls) :
        calls[m].met = "other"
            => /\ m = Len(calls)
               /\ wpc = "settled"
               /\ now = calls[m].checked
               /\ settled = Rejected("TypeError",
                      "condition must return or resolve to a boolean")

\* the condition was false once and then came back with no boolean
C24_Witness ==
    /\ Len(calls) = 2
    /\ calls[1].met = "false"
    /\ calls[2].met = "other"
    /\ RejectedWith("TypeError")

\* C25: waitForCompletedExecution returns the status it saw last, and while
\* that status is RUNNING, or the execution is still starting, it returns
\* only once timeout seconds have passed since the call: a status returned
\* before that is the status of a completed execution
C25_ReturnsCompletedOrTimedOut ==
    completion.kind = "returned"
        => /\ epc = "settled"
           /\ completion.status = executionStatus
           /\ got.kind = "returned" => completion.status = got.status
           /\ completion.status \in {"RUNNING", "STARTING"}
                 => clock >= timeout * 1000
           /\ clock < timeout * 1000
                 => completion.status \in CompletedStatuses

\* a call with the default timeout returned SUCCEEDED at its third look at
\* the execution, long before the timeout
C25_Witness ==
    /\ completion = Returned("SUCCEEDED")
    /\ timeout = DefaultExecutionTimeout
    /\ iteration = 3
    /\ clock < timeout * 1000

\* C26: getExecutionStatus returns RUNNING for an execution that does not
\* exist, and the status reported for the execution otherwise
C26_MissingExecutionIsRunning ==
    got.kind # "pending"
        => /\ described.code = "ExecutionDoesNotExist" => got = Returned("RUNNING")
           /\ described.code = NoError => got = Returned(described.status)

\* C27: a call of batchWrite with more than 25 deletes and puts together
\* throws and hands nothing to the table; a call with 25 or fewer hands it
\* one batch, of every delete followed by every put
C27_BatchOfAtMost25 ==
    mpc = "settled"
        => IF Len(OrEmpty(deletes)) + Len(OrEmpty(puts)) > BatchLimit
           THEN /\ written.kind = "rejected"
                /\ written.error # "ValidationException"
                /\ batches = <<>>
           ELSE /\ Len(batches) = 1
                /\ Len(batches[1]) = Len(OrEmpty(deletes)) + Len(OrEmpty(puts))
                /\ \A i \in 1..Len(OrEmpty(deletes)) :
                      batches[1][i] = DeleteRequest(OrEmpty(deletes)[i])
                /\ \A i \in 1..Len(OrEmpty(puts)) :
                      batches[1][Len(OrEmpty(deletes)) + i]
                          = PutRequest(OrEmpty(puts)[i])

\* the step is a call of Rule.create that succeeded for an item with no state
CreatedWithoutState ==
    /\ creates' = creates + 1
    /\ created'.kind = "resolved"
    /\ created'.given.state = NoState

\* C28: when Rule.create succeeds for an item with no state, the record it
\* stores has state ENABLED, the event it puts for a scheduled rule has state
\* ENABLED, and the mapping a kinesis rule ends up with, and any mapping the
\* call creates, is enabled
C28_DefaultStateEnabled ==
    [][CreatedWithoutState
         => LET n == created'.given.name
            IN /\ created'.item.state = "ENABLED"
               /\ rules'[n] = created'.item
               /\ rules'[n].state = "ENABLED"
               /\ created'.given.rule.type = "scheduled"
                     => schedules'[n] = [value |-> created'.given.rule.value,
                                         state |-> "ENABLED"]
               /\ created'.given.rule.type = "kinesis"
                     => /\ \E m \in mappings' :
                              /\ m.UUID = rules'[n].rule.arn
                              /\ m.EventSourceArn = created'.given.rule.value
                              /\ m.State = "Enabled"
                        /\ \A m \in mappings' \ mappings : m.State = "Enabled"]_vars

\* a kinesis rule was created without a state while the mapping of its
\* stream was disabled: that mapping is gone, and the rule has a second one
C28_Witness ==
    /\ created.kind = "resolved"
    /\ created.given.state = NoState
    /\ created.given.rule.type = "kinesis"
    /\ creates = 2
    /\ rules[created.given.name].state = "ENABLED"
    /\ rules[created.given.name].rule.arn = 2
    /\ mappings = {[UUID |-> 2, EventSourceArn |-> created.given.rule.value,
                    State |-> "Enabled"]}

\* this step is a fetch of invocation i that failed
FetchFailed(i) ==
    /\ pc[i] = "fetch"
    /\ pc'[i] # "stage"
    /\ <<pc'[i], cur'[i]>> # <<pc[i], cur[i]>>

\* this step is invocation i's evaluation of the policy, which rejects the
\* file in hand
PolicyRejected(i) ==
    /\ StageStep(i)
    /\ Evaluate(store[DestKey(i)], cur[i].incoming,
                ResolveMode(adapter[i].duplicateHandling)) = "Reject"

\* C29: when the ingest of the k-th granule of the input fails, download
\* throws the error of that ingest with the k - 1 granules before it ingested
\* and none after it started, and leaves the staging area as it is; the
\* promise of the invocation is then rejected, with that error or the error
\* it is normalized to, and with no granules, the staging area still
\* untouched, and no ingest follows
C29_FailureIsFatalAndKeepsProgress ==
    [][\A i \in Invocations :
          /\ (FetchFailed(i) \/ PolicyRejected(i))
                => /\ pc'[i] = "catch"
                   /\ cur[i].g = input[i][Len(done[i]) + 1]
                   /\ FetchFailed(i) => err'[i] \in TransportErrors
                   /\ PolicyRejected(i) => err'[i] = "DuplicateFile"
                   /\ done'[i] = done[i] /\ todo'[i] = todo[i]
                   /\ store' = store /\ versions' = versions
          /\ (pc[i] = "catch" /\ pc'[i] # "catch")
                => /\ pc'[i] = "settled"
                   /\ outcome'[i].kind = "rejected"
                   /\ outcome'[i].granules = <<>>
                   /\ outcome'[i].error # NoError
                   /\ err[i] \notin {"ECONNREFUSED", "timeout"}
                         => outcome'[i].error = err[i]
                   /\ store' = store /\ versions' = versions
          /\ pc[i] \in {"catch", "settled"}
                => pc'[i] \in {"catch", "settled"}]_vars

\* the ingest of the second granule has failed, and the file staged for the
\* first is where it was put
C29_Witness ==
    \E i \in Invocations :
        /\ pc[i] = "catch"
        /\ err[i] # NoError
        /\ Len(done[i]) = 1
        /\ cur[i].g = input[i][2]
        /\ store[<<input[i][1], "hdf">>] # NoObject

\* C30: an invocation whose key is under an unexpired entry of another owner
\* gets ResourcesLockedError from download and ingests nothing, and an
\* invocation starts its first ingest only when the lock check has given it
\* the key: the entry under its key is its own and unexpired
C30_IngestOnlyAfterLockCheck ==
    [][\A i \in Invocations :
          SyncStep(i)
              => /\ (/\ lockKey'[i] \in LockKeys
                     /\ Unexpired(table[lockKey'[i]])
                     /\ table[lockKey'[i]].owner # i)
                       => /\ pc'[i] = "catch"
                          /\ err'[i] = "ResourcesLockedError"
                 /\ pc'[i] = "fetch"
                       => /\ table'[lockKey'[i]].owner = i
                          /\ Unexpired(table'[lockKey'[i]])]_vars

\* this step is a call of getExecutionStatus that threw
StatusThrew == epc = "status" /\ epc' # "status" /\ got'.kind = "thrown"

\* C31: when getExecutionStatus throws ExecutionDoesNotExist in one of the
\* first 60 iterations the execution counts as starting and the loop goes on
\* to its sleep; when it throws that error in a later iteration, or any other
\* error in any iteration, the call is rejected with the error at once
C31_MissingExecutionToleratedAtFirst ==
    [][StatusThrew
         => IF got'.code = "ExecutionDoesNotExist" /\ iteration' <= 60
            THEN /\ epc' = "sleep"
                 /\ executionStatus' = "STARTING"
                 /\ completion' = NotCalled
            ELSE /\ epc' = "settled"
                 /\ completion' = Thrown(got'.code)
                 /\ clock' - clock \in DescribeLatencies]_vars

\* the execution did not exist for five minutes: the 61st look at it threw
C31_Witness ==
    /\ completion = Thrown("ExecutionDoesNotExist")
    /\ iteration = 61
    /\ executionStatus = "STARTING"

\* C32: waitForAsyncOperationStatus reads the operation at most retries + 1
\* times, two seconds apart; only the last read can show the status asked
\* for or fail; the call returns the item of a read that shows the status at
\* once, returns the item of read retries + 1 whatever its status, and is
\* rejected only when a read itself fails
C32_ReadsAtMostRetriesPlusOne ==
    /\ Len(reads) <= params.retries + 1
    /\ \A m \in 1..(Len(reads) - 1) :
          reads[m].read /\ reads[m].status # params.status
    /\ apc = "sleep"
          => /\ reads[Len(reads)].read
             /\ reads[Len(reads)].status # params.status
             /\ Len(reads) <= params.retries
             /\ elapsed = 2000 * (Len(reads) - 1)
    /\ apc = "getItem" => elapsed = 2000 * Len(reads)
    /\ apc = "settled"
          => /\ reads # <<>>
             /\ elapsed = 2000 * (Len(reads) - 1)
             /\ IF reads[Len(reads)].read
                THEN /\ operation = [kind |-> "resolved", item |-> reads[Len(reads)]]
                     /\ \/ operation.item.status = params.status
                        \/ Len(reads) = params.retries + 1
                ELSE operation.kind = "rejected"

\* a call with the default retries returned the item of its sixth read,
\* which did not show the status asked for, ten seconds after it was made
C32_Witness ==
    /\ params.retries = 5
    /\ Len(reads) = 6
    /\ operation.kind = "resolved"
    /\ operation.item.status # params.status
    /\ elapsed = 10000

\* C33: after a call of Manager.create the caller's items are as they were
\* given; when one of them is not valid against the schema nothing was
\* written and the call was rejected for it; what was written are the first
\* items of the input, in its order, each with updatedAt set and with
\* createdAt set where it was missing and kept where it was not; and a call
\* that resolved wrote all of them and returns them
C33_ValidatesAllBeforeWriting ==
    mpc = "created"
        => LET l == items.given.list
           IN /\ items.after = l
              /\ (items.schema /\ \E i \in 1..Len(l) : ~l[i].valid)
                    => /\ putItems = <<>>
                       /\ saved.kind = "rejected"
                       /\ saved.error = "SchemaValidationError"
              /\ Len(putItems) <= Len(l)
              /\ \A i \in 1..Len(putItems) :
                    /\ putItems[i].name = l[i].name
                    /\ putItems[i].updatedAt = Now
                    /\ putItems[i].createdAt =
                          IF l[i].createdAt = NoTimestamp THEN Now
                          ELSE l[i].createdAt
              /\ saved.kind = "resolved"
                    => Len(putItems) = Len(l) /\ saved.value = putItems
              /\ saved.kind = "rejected" => Len(putItems) < Len(l) \/ l = <<>>

\* create was given a valid item and then one that is not valid, and wrote
\* neither
C33_Witness ==
    /\ mpc = "created"
    /\ items.schema
    /\ Len(items.given.list) = 2
    /\ items.given.list[1].valid /\ ~items.given.list[2].valid
    /\ items.given.list[1].createdAt = NoTimestamp
    /\ putItems = <<>>
    /\ saved.error = "SchemaValidationError"

\* C34: the Items scan returns hold every record of every page of the table
\* exactly once, and Count is their number
C34_ScanReturnsEveryRecordOnce ==
    mpc = "scanned"
        => /\ \A k \in 1..Len(pages) :
                 \A j \in 1..Len(pages[k]) :
                    Cardinality({n \in 1..Len(scanned.Items) :
                                    scanned.Items[n] = pages[k][j]}) = 1
           /\ \A n \in 1..Len(scanned.Items) :
                 \E k \in 1..Len(pages) :
                    \E j \in 1..Len(pages[k]) : scanned.Items[n] = pages[k][j]
           /\ scanned.Count = Len(scanned.Items)

\* this step is a call of Rule.create
CreateStep == creates' = creates + 1

\* C35: a call of Rule.create for a name with a character that is no letter,
\* digit or underscore is rejected for the name before the workflow is looked
\* up and with nothing invoked, put, mapped or stored; a call for a workflow
\* that does not exist, or for a rule type that is not supported, is rejected
\* for that with no record stored, and nothing invoked, put or mapped either
C35_RejectsBeforePersisting ==
    [][CreateStep
         => LET given == created'.given
            IN /\ given.name = "rule-3"
                     => /\ created'.kind = "rejected"
                        /\ created'.error
                              = "Names may only contain letters, numbers, and underscores."
                        /\ ~created'.lookup
                        /\ UNCHANGED <<rules, schedules, mappings, invoked>>
               /\ (given.name # "rule-3" /\ ~created'.workflow)
                     => /\ created'.kind = "rejected"
                        /\ created'.error = "Workflow doesn't exist"
                        /\ UNCHANGED <<rules, schedules, mappings, invoked>>
               /\ (/\ given.name # "rule-3"
                   /\ created'.workflow
                   /\ given.rule.type \notin {"onetime", "scheduled", "kinesis"})
                     => /\ created'.kind = "rejected"
                        /\ created'.error = "Type not supported"
                        /\ UNCHANGED <<rules, schedules, mappings, invoked>>]_vars

\* a rule is stored, and the second call of create, for a name with a
\* hyphen, was rejected
C35_Witness ==
    /\ creates = 2
    /\ created.given.name = "rule-3"
    /\ created.kind = "rejected"
    /\ \E n \in RuleNames : rules[n] # NoRule

\* a step of Rule.delete that removes the stored rule of name n
DeleteStep(n) == rules[n] # NoRule /\ rules'[n] = NoRule

C36_Deleted ==
    /\ removed # NoRule
    /\ removed.rule.type = "kinesis"
    /\ removed.rule.arn # NoArn
    /\ rules[removed.name] = NoRule
    /\ \A m \in mappings : m.UUID # removed.rule.arn

\* the stored rules of type kinesis
KinesisRules == {n \in RuleNames : rules[n] # NoRule /\ rules[n].rule.type = "kinesis"}

\* the rule.arn of every stored kinesis rule names a mapping of its stream
EveryRuleIsMapped ==
    \A n \in KinesisRules :
        \E m \in mappings :
            m.UUID = rules[n].rule.arn /\ m.EventSourceArn = rules[n].rule.value

\* no stream has two mappings
OneMappingPerStream ==
    \A m1, m2 \in mappings : m1.EventSourceArn = m2.EventSourceArn => m1 = m2

\* every mapping is of a stream that a stored kinesis rule has as its value
NoMappingLeftBehind ==
    \A m \in mappings :
        \E n \in KinesisRules : rules[n].rule.value = m.EventSourceArn

\* C37: after calls of Rule.create, Rule.update and Rule.delete that all
\* resolved, the rule.arn of every stored kinesis rule names a mapping of the
\* rule's stream, no stream has two mappings, and every mapping is of a
\* stream that a stored kinesis rule has as its value
C37_MappingsFollowRules ==
    ~refused => EveryRuleIsMapped /\ OneMappingPerStream /\ NoMappingLeftBehind

\* two calls of create, both for a kinesis rule of the name rule_1, resolved:
\* the mapping of the first call's stream is still there, and no rule has it
C37_LeftBehind ==
    /\ ~refused /\ creates = 2 /\ removed = NoRule
    /\ rules["rule_2"] = NoRule
    /\ rules["rule_1"].rule = [type |-> "kinesis", value |-> "stream_b", arn |-> 2]
    /\ mappings = {[UUID |-> 1, EventSourceArn |-> "stream_a", State |-> "Enabled"],
                   [UUID |-> 2, EventSourceArn |-> "stream_b", State |-> "Enabled"]}

\* C38: the sync-granule handler invokes its callback exactly once per
\* invocation: with the error when syncGranule rejects, otherwise with a copy
\* of the event in which meta has the duration, which is not negative, and
\* the end time added, payload has the output over it, and every other
\* field is as it was
C38_CallbackOnceWithFrame ==
    /\ Len(callbacks) <= 1
    /\ hpc \in {"returned", "threw"} =>
          /\ Len(callbacks) = 1
          /\ IF synced.kind = "rejected"
             THEN callbacks[1] = [error |-> synced.error, data |-> NoOutput]
             ELSE /\ callbacks[1].error = NoError
                  /\ callbacks[1].data.config = hevent.config
                  /\ callbacks[1].data.meta.event = hevent.meta
                  /\ callbacks[1].data.meta.additional.sync_granule_duration >= 0
                  /\ callbacks[1].data.meta.additional.sync_granule_duration
                        = callbacks[1].data.meta.additional.sync_granule_end_time
                            - startTime
                  /\ callbacks[1].data.payload =
                        [granules |-> synced.granules, pdr |-> hevent.payload.pdr,
                         process |-> synced.process]

\* the handler threw what syncGranule threw, and its callback was not called
C38_Threw == hpc = "threw" /\ callbacks = <<>>

\* the same holds of the invocations in which syncGranule returns a promise
C38_OnceWhenSyncGranuleReturns == hpc = "threw" \/ C38_CallbackOnceWithFrame

\* C39: the cleanup handler invokes its callback exactly once per invocation
\* and only after the deletion of the staged file has finished: with
\* 'Failed to delete files' when the deletion fails, otherwise with the
\* took-too-long error when the duration exceeds 120000 ms, otherwise with
\* the event
C39_CallbackAfterDeletion ==
    /\ Len(cleanups) <= 1
    /\ cpc \in {"returned", "threw"} => Len(cleanups) = 1
    /\ cleanups # <<>> =>
          /\ deletion \in {"finished", "rejected"}
          /\ cleanups[1] =
                IF deletion = "rejected"
                THEN [error |-> "Failed to delete files", event |-> NoCleanupEvent]
                ELSE IF cleaned.sync_granule_duration > 120000
                THEN [error |-> "SyncGranule Took too long to finish",
                      event |-> NoCleanupEvent]
                ELSE [error |-> NoError, event |-> cleaned]

\* the callback was given the event while the deletion was still running
C39_CalledBack ==
    /\ cleanups = <<[error |-> NoError, event |-> cleaned]>>
    /\ deletion = "running"

\* the deletion failed, and the callback had been given the event
C39_FailureNotReported ==
    /\ cleanups = <<[error |-> NoError, event |-> cleaned]>>
    /\ deletion = "rejected"

\* ceil(timeout / interval)
MostCalls(o) == (Timeout(o) + Interval(o) - 1) \div Interval(o)

\* C40: with valid arguments waitForConditionalValue calls fn at least once,
\* also when timeout is smaller than interval, and at most
\* ceil(timeout / interval) times, so that the loop ends; it never starts a
\* wait that would end at or after the deadline; and an error of fn or of
\* condition rejects the call at once, without another call of fn
C40_BoundedCallsNoLateWait ==
    wpc # "idle" /\ ArgumentError(options) = NoError =>
        /\ Len(calls) <= MostCalls(options)
        /\ wpc = "fn" => Len(calls) < MostCalls(options)
        /\ wpc = "settled" => Len(calls) >= 1
        /\ wpc = "sleep" => now + Interval(options) < timeoutAt
        /\ \A k \in 1..Len(calls) :
              calls[k].met \in {"fn threw", "threw"} =>
                  /\ k = Len(calls)
                  /\ wpc = "settled"
                  /\ settled.kind = "rejected"
                  /\ settled.error[1] = "Error"

\* a call with a timeout smaller than its interval called fn once and timed
\* out
C40_Witness ==
    /\ wpc = "settled"
    /\ ArgumentError(options) = NoError
    /\ Timeout(options) < Interval(options)
    /\ Len(calls) = 1
    /\ settled = Rejected("TimeoutError", "waitForConditionalValue timed out")

\* a call made all the calls of fn it can make, and timed out
C40_AllCalls ==
    /\ wpc = "settled"
    /\ ArgumentError(options) = NoError
    /\ Len(calls) = MostCalls(options)
    /\ Len(calls) >= 3
    /\ settled = Rejected("TimeoutError", "waitForConditionalValue timed out")

\* condition threw for the value of the second call of fn
C40_ConditionThrew ==
    /\ Len(calls) = 2
    /\ calls[2].met = "threw"
====
